---- MODULE Spec2Model ----
(***************************************************************************)
(* Move generation and scoring engine of aislobsterble: the board model,   *)
(* build_played_tiles, words_created, score and the candidate search of    *)
(* Controller::candidate_plays, translated from src/models/game_models.rs, *)
(* src/utilities.rs and src/controller.rs.                                 *)
(*                                                                         *)
(* Encoding.  Option<T> is a sequence of length 0 (None) or 1 (Some).      *)
(* A Result is a pair <<"Ok", value>> or <<"Err", message>>; a call that   *)
(* panics (panic!, a failed unwrap or expect) yields <<"Panic", message>>. *)
(* Grids are functions over 0-based rows and columns, as Vec indexing is.  *)
(***************************************************************************)
EXTENDS Integers, Sequences, FiniteSets, TLC

(* ---------------- bounds of the explored inputs ---------------- *)
MaxRows == 3
MaxColumns == 2
MaxFixed == 2
MaxTiles == 2
MaxRack == 3
MaxWord == 3

(* ---------------- program constants ---------------- *)
BINGO_BONUS == 50
BINGO_TILES_LENGTH == 7

(* ---------------- Option and Result ---------------- *)
None == <<>>
Some(x) == <<x>>
is_some(o) == o # <<>>
is_none(o) == o = <<>>
unwrap(o) == o[1]

Ok(v) == <<"Ok", v>>
Err(m) == <<"Err", m>>
Panic(m) == <<"Panic", m>>
is_ok(r) == r[1] = "Ok"
is_err(r) == r[1] = "Err"
is_panic(r) == r[1] = "Panic"
NoResult == <<"NoResult", 0>>

(* ---------------- data model ---------------- *)
Tile(l, v, b) == [letter |-> l, value |-> v, is_blank |-> b]
is_letterless(tile) == is_none(tile.letter)

Coordinates(r, c) == [row |-> r, column |-> c]

PlayedTile(coords, tile) == [coordinates |-> coords, tile |-> tile]

Modifier(lm, wm) == [letter_multiplier |-> lm, word_multiplier |-> wm]

Axes == <<"Horizontal", "Vertical">>

complement(axis) == IF axis = "Vertical" THEN "Horizontal" ELSE "Vertical"

multiplier(direction) == IF direction = "Positive" THEN 1 ELSE -1

AxisDelta(axis) == IF axis = "Horizontal" THEN <<0, 1>> ELSE <<1, 0>>

Step(position, delta) ==
    Coordinates(position.row + delta[1], position.column + delta[2])

VARIABLES
    rows,           \* GameBoard.rows
    columns,        \* GameBoard.columns
    board_tiles,    \* GameBoard.board_tiles: row -> column -> Option<Tile>
    modifiers,      \* GameBoard.modifiers: row -> column -> Modifier
    rack,           \* Rack.tiles
    dictionary,     \* Controller.dictionary
    pc,             \* the operation that ran last
    call,           \* the arguments of the last build_played_tiles call
    played_tiles,   \* the Result of the last build_played_tiles call
    passed,         \* the Vec<PlayedTile> handed to words_created / score
    words,          \* the Result of the last words_created call
    total,          \* the Result of the last score call
    contributions,  \* the values returned to score by its two helpers
    candidates,     \* the Result of the last candidate_plays call
    fills,          \* the letters handed to the last fill_blanks call
    filled,         \* the Result of the last fill_blanks call
    operands,       \* the Tiles being compared
    orderings,      \* operands[i].cmp(operands[j]) for every pair
    population,     \* next_combination's population_size
    current,        \* the Option<Vec<usize>> the last utilities call returned
    yielded,        \* every Vec<usize> of the iteration so far, the first included
    check_score,    \* Config.check_score
    attempt_limit,  \* play_turn's attempt_limit
    attempt,        \* candidates of the slice the for loop has been through
    submissions,    \* the client.play_turn calls of this play_turn, with their outcome
    verifications,  \* the client.get_game calls of verify_score, with their outcome
    returned,       \* what play_turn returned
    games,          \* the games the server lists
    listing,        \* the Result of client.list_games
    pending,        \* potential_ai_turn_games the for loop of poll has not reached
    fetches,        \* the client.get_game calls of poll, with their outcome
    turns,          \* the games play_turn was called for
    frames,         \* the calls of candidate_plays inside their blank branch
    searching,      \* the rack of the call of candidate_plays being made
    cursor,         \* the pass of the four for loops, counted from 1
    chosen,         \* index_selection
    feasible,       \* the cells the feasibility build laid tiles on
    skipped         \* passes through the arm that logs a failed build

utilVars == <<fills, filled, operands, orderings, population, current, yielded>>

turnVars == <<check_score, attempt_limit, attempt, submissions, verifications,
              returned>>

pollVars == <<games, listing, pending, fetches, turns>>

loopVars == <<frames, searching, cursor, chosen, feasible, skipped>>

vars == <<rows, columns, board_tiles, modifiers, rack, dictionary, pc, call,
          played_tiles, passed, words, total, contributions, candidates,
          utilVars, turnVars, pollVars, loopVars>>

boardVars == <<rows, columns, board_tiles, modifiers, rack, dictionary>>

(* ---------------- grid access ---------------- *)
\* board_tiles.get(row as usize) and then .get(column as usize): a negative
\* i32 cast to usize is out of range, so both lookups give None off the grid.
InRows(r) == r \in 0..(rows - 1)
InColumns(c) == c \in 0..(columns - 1)
InGrid(p) == InRows(p.row) /\ InColumns(p.column)

is_occupied(coordinates) ==
    IF ~InRows(coordinates.row) THEN Err("row out of bounds")
    ELSE IF ~InColumns(coordinates.column) THEN Err("column out of bounds")
    ELSE Ok(is_some(board_tiles[coordinates.row][coordinates.column]))

adjacency_deltas == <<<<0, 1>>, <<0, -1>>, <<1, 0>>, <<-1, 0>>>>

is_connected(tiles) ==
    \E i \in 1..Len(tiles) : \E d \in 1..Len(adjacency_deltas) :
        LET adj == Step(tiles[i].coordinates, adjacency_deltas[d])
        IN  /\ InRows(adj.row)
            /\ InColumns(adj.column)
            /\ is_some(board_tiles[adj.row][adj.column])

\* Mutant of is_through_center: only the row is compared.
is_through_center_row(tiles) ==
    \E i \in 1..Len(tiles) : tiles[i].coordinates.row = rows \div 2

is_through_center(tiles) ==
    LET center == Coordinates(rows \div 2, columns \div 2)
    IN  \E i \in 1..Len(tiles) : tiles[i].coordinates = center

is_available(tiles) ==
    \A i \in 1..Len(tiles) :
        /\ InGrid(tiles[i].coordinates)
        /\ is_none(board_tiles[tiles[i].coordinates.row][tiles[i].coordinates.column])

(* ---------------- build_played_tiles ---------------- *)
\* Mutant of SkipOccupied: an if in place of the while, one step at most.
SkipOccupied_once(position, delta) ==
    IF ~InRows(position.row) THEN Err("row_limit_err")
    ELSE IF ~InColumns(position.column) THEN Err("column_limit_err")
    ELSE IF is_some(board_tiles[position.row][position.column])
         THEN IF ~InRows(Step(position, delta).row) THEN Err("row_limit_err")
              ELSE IF ~InColumns(Step(position, delta).column) THEN Err("column_limit_err")
              ELSE Ok(Step(position, delta))
         ELSE Ok(position)

\* Mutant of SkipOccupied: an occupied cell is not advanced over.
SkipOccupied_none(position, delta) ==
    IF ~InRows(position.row) THEN Err("row_limit_err")
    ELSE IF ~InColumns(position.column) THEN Err("column_limit_err")
    ELSE Ok(position)

\* The inner while loop: advance over occupied cells.  Yields the first
\* empty position, or the error of the lookup that left the grid.
RECURSIVE SkipOccupied(_, _)
SkipOccupied(position, delta) ==
    IF ~InRows(position.row) THEN Err("row_limit_err")
    ELSE IF ~InColumns(position.column) THEN Err("column_limit_err")
    ELSE IF is_some(board_tiles[position.row][position.column])
         THEN SkipOccupied(Step(position, delta), delta)
         ELSE Ok(position)

\* Mutant of BuildLoop: the position is looked up before the loop's exit
\* test, so the cell after the last laid tile has to be on the grid too.
RECURSIVE BuildLoop_eager(_, _, _, _, _)
BuildLoop_eager(tiles, tile_index, position, delta, acc) ==
    IF tiles = <<>> THEN Ok(acc)
    ELSE IF ~InRows(position.row) THEN Err("row_limit_err")
    ELSE IF ~InColumns(position.column) THEN Err("column_limit_err")
    ELSE IF tile_index > Len(tiles) THEN Ok(acc)
    ELSE IF is_some(board_tiles[position.row][position.column]) /\ tile_index = 1
         THEN Err("start_occupied")
    ELSE LET free == SkipOccupied(position, delta)
         IN  IF is_err(free) THEN free
             ELSE BuildLoop_eager(tiles, tile_index + 1, Step(free[2], delta), delta,
                                  Append(acc, PlayedTile(free[2], tiles[tile_index])))

\* The for loop over tiles.iter().enumerate(), tile_index counted from 1.
RECURSIVE BuildLoop(_, _, _, _, _)
BuildLoop(tiles, tile_index, position, delta, acc) ==
    IF tile_index > Len(tiles) THEN Ok(acc)
    ELSE IF ~InRows(position.row) THEN Err("row_limit_err")
    ELSE IF ~InColumns(position.column) THEN Err("column_limit_err")
    ELSE IF is_some(board_tiles[position.row][position.column]) /\ tile_index = 1
         THEN Err("start_occupied")
    ELSE LET free == SkipOccupied(position, delta)
         IN  IF is_err(free) THEN free
             ELSE BuildLoop(tiles, tile_index + 1, Step(free[2], delta), delta,
                            Append(acc, PlayedTile(free[2], tiles[tile_index])))

\* Mutant of build_played_tiles: a tile of lower value than the tile before
\* it is refused.
build_played_tiles_ascending(start_coordinates, tiles, axis) ==
    IF \E k \in 1..(Len(tiles) - 1) : tiles[k].value > tiles[k + 1].value
    THEN Err("descending")
    ELSE BuildLoop(tiles, 1, start_coordinates, AxisDelta(axis), <<>>)

build_played_tiles(start_coordinates, tiles, axis) ==
    BuildLoop(tiles, 1, start_coordinates, AxisDelta(axis), <<>>)

(* ---------------- connected spans ---------------- *)
RECURSIVE ExtremalLoop(_, _)
ExtremalLoop(min_position, delta) ==
    LET adj_position == Step(min_position, delta)
    IN  IF ~InRows(adj_position.row) THEN min_position
        ELSE IF ~InColumns(adj_position.column) THEN min_position
        ELSE IF is_none(board_tiles[adj_position.row][adj_position.column])
             THEN min_position
             ELSE ExtremalLoop(adj_position, delta)

extremal_connected_position(start_position, axis, direction) ==
    ExtremalLoop(start_position,
                 IF axis = "Horizontal" THEN <<0, multiplier(direction)>>
                                        ELSE <<multiplier(direction), 0>>)

min_connected_position(start_position, axis) ==
    extremal_connected_position(start_position, axis, "Negative")

max_connected_position(start_position, axis) ==
    extremal_connected_position(start_position, axis, "Positive")

(* ---------------- words_created ---------------- *)
\* Mutant of played_tile_map: only the first list entry is inserted.
played_tile_map_first(tiles) ==
    [p \in {tiles[1].coordinates} |-> tiles[1]]

\* HashMap<Coordinates, &PlayedTile>: a later insert replaces an earlier one,
\* so a coordinate maps to the last list entry that has it.
played_tile_map(tiles) ==
    [p \in {tiles[i].coordinates : i \in 1..Len(tiles)} |->
        tiles[CHOOSE i \in 1..Len(tiles) :
                /\ tiles[i].coordinates = p
                /\ \A j \in (i + 1)..Len(tiles) : tiles[j].coordinates # p]]

\* The loop of build_word; each pass reads one cell and then either stops
\* (position = end) or steps.  Leaving the grid fails the unwrap.
RECURSIVE BuildWordLoop(_, _, _, _, _)
BuildWordLoop(position, end, delta, map, word) ==
    IF ~InGrid(position) THEN Panic("unwrap on None")
    ELSE LET cell == board_tiles[position.row][position.column]
         IN  IF is_some(cell) /\ is_none(unwrap(cell).letter)
                 THEN Panic("A blank letter was found on the board.")
             ELSE IF is_none(cell) /\ position \notin DOMAIN map
                 THEN Panic("No played tile in empty board space")
             ELSE IF is_none(cell) /\ is_none(map[position].tile.letter)
                 THEN Panic("A blank letter was played.")
             ELSE LET letter == IF is_some(cell)
                                   THEN unwrap(unwrap(cell).letter)
                                   ELSE unwrap(map[position].tile.letter)
                  IN  IF position = end THEN Ok(Append(word, letter))
                      ELSE BuildWordLoop(Step(position, delta), end, delta, map,
                                         Append(word, letter))

build_word(start, end, map) ==
    BuildWordLoop(start, end,
                  AxisDelta(IF start.row = end.row THEN "Horizontal" ELSE "Vertical"),
                  map, <<>>)

\* Mutant of primary_axis: a single tile with a fixed tile beside it in its
\* row has the Horizontal axis.
primary_axis_by_span(tiles) ==
    IF Len(tiles) < 1 THEN Panic("Cannot find the primary axis of no tiles.")
    ELSE IF Len(tiles) = 1 THEN
        LET horizontal_min == min_connected_position(tiles[1].coordinates, "Horizontal")
            horizontal_max == max_connected_position(tiles[1].coordinates, "Horizontal")
        IN  IF horizontal_min = horizontal_max THEN Ok("Vertical") ELSE Ok("Horizontal")
    ELSE IF tiles[1].coordinates.row = tiles[2].coordinates.row
         THEN Ok("Horizontal") ELSE Ok("Vertical")

\* Result<Axis>: panics on an empty list.
primary_axis(tiles) ==
    IF Len(tiles) < 1 THEN Panic("Cannot find the primary axis of no tiles.")
    ELSE IF Len(tiles) = 1 THEN
        LET horizontal_min == min_connected_position(tiles[1].coordinates, "Horizontal")
            horizontal_max == max_connected_position(tiles[1].coordinates, "Horizontal")
        IN  IF horizontal_min = horizontal_max THEN Ok("Vertical") ELSE Ok("Vertical")
    ELSE IF tiles[1].coordinates.row = tiles[2].coordinates.row
         THEN Ok("Horizontal") ELSE Ok("Vertical")

\* The for loop of words_created over the played tiles.
RECURSIVE SecondaryWordsLoop(_, _, _, _, _)
SecondaryWordsLoop(tiles, i, secondary_axis, map, acc) ==
    IF i > Len(tiles) THEN Ok(acc)
    ELSE LET start == min_connected_position(tiles[i].coordinates, secondary_axis)
             end == max_connected_position(tiles[i].coordinates, secondary_axis)
         IN  IF start # end
             THEN LET w == build_word(start, end, map)
                  IN  IF is_panic(w) THEN w
                      ELSE SecondaryWordsLoop(tiles, i + 1, secondary_axis, map,
                                              Append(acc, w[2]))
             ELSE SecondaryWordsLoop(tiles, i + 1, secondary_axis, map, acc)

\* Mutant of words_created: the primary word ends at min_connected_position
\* of the last tile.
words_created_min_end(tiles) ==
    LET axis == primary_axis(tiles)
    IN  IF is_panic(axis) THEN axis
        ELSE LET map == played_tile_map(tiles)
                 primary_start == min_connected_position(tiles[1].coordinates, axis[2])
                 primary_end == min_connected_position(tiles[Len(tiles)].coordinates, axis[2])
                 primary == build_word(primary_start, primary_end, map)
             IN  IF is_panic(primary) THEN primary
                 ELSE SecondaryWordsLoop(tiles, 1, complement(axis[2]), map,
                                         <<primary[2]>>)

words_created(tiles) ==
    LET axis == primary_axis(tiles)
    IN  IF is_panic(axis) THEN axis
        ELSE LET map == played_tile_map(tiles)
                 primary_start == min_connected_position(tiles[1].coordinates, axis[2])
                 primary_end == max_connected_position(tiles[Len(tiles)].coordinates, axis[2])
                 primary == build_word(primary_start, primary_end, map)
             IN  IF is_panic(primary) THEN primary
                 ELSE SecondaryWordsLoop(tiles, 1, complement(axis[2]), map,
                                         <<primary[2]>>)

(* ---------------- score ---------------- *)
\* The while loop of score_secondary_axis: position != end_position, so the
\* pass for end_position itself is never made.
RECURSIVE SecondaryLoop(_, _, _, _, _, _)
SecondaryLoop(position, end_position, delta, played_tile, modifier, sum) ==
    IF position = end_position THEN Ok(sum)
    ELSE IF ~InGrid(position) THEN Panic("unwrap on None")
    ELSE LET cell == board_tiles[position.row][position.column]
         IN  IF is_none(cell) /\ played_tile.coordinates # position
                 THEN Panic("Encountered empty position in secondary axis iteration.")
             ELSE SecondaryLoop(Step(position, delta), end_position, delta,
                                played_tile, modifier,
                                IF is_none(cell)
                                   THEN sum + played_tile.tile.value * modifier.letter_multiplier
                                   ELSE sum + unwrap(cell).value)

score_secondary_axis(played_tile, axis) ==
    IF ~InGrid(played_tile.coordinates) THEN Panic("unwrap on None")
    ELSE LET modifier == modifiers[played_tile.coordinates.row][played_tile.coordinates.column]
             word_multiplier == modifier.word_multiplier
             start_position == min_connected_position(played_tile.coordinates, axis)
             end_position == max_connected_position(played_tile.coordinates, axis)
         IN  IF start_position = end_position THEN Ok(0)
             ELSE LET walked == SecondaryLoop(start_position, end_position,
                                              AxisDelta(axis), played_tile, modifier, 0)
                  IN  IF is_panic(walked) THEN walked
                      ELSE Ok(walked[2] * word_multiplier)

\* Mutant of PrimaryPass: the letter_multiplier is left out.
PrimaryPass_raw(position, map, sum, word_multiplier) ==
    LET board_tile == board_tiles[position.row][position.column]
        modifier == modifiers[position.row][position.column]
    IN  IF is_some(board_tile)
        THEN <<sum + unwrap(board_tile).value, word_multiplier>>
        ELSE <<sum + map[position].tile.value,
               word_multiplier * modifier.word_multiplier>>

\* One pass of the while loop of score_primary_axis over an in-grid cell
\* that holds a fixed tile or a played tile: the new <<total, word_multiplier>>.
PrimaryPass(position, map, sum, word_multiplier) ==
    LET board_tile == board_tiles[position.row][position.column]
        modifier == modifiers[position.row][position.column]
    IN  IF is_some(board_tile)
        THEN <<sum + unwrap(board_tile).value, word_multiplier>>
        ELSE <<sum + map[position].tile.value * modifier.letter_multiplier,
               word_multiplier * modifier.word_multiplier>>

\* The while loop of score_primary_axis: every pass scores one cell, then
\* stops at coordinate_max (handled_inclusive) or steps.
RECURSIVE PrimaryLoop(_, _, _, _, _, _)
PrimaryLoop(position, coordinate_max, delta, map, sum, word_multiplier) ==
    IF ~InGrid(position) THEN Panic("unwrap on None")
    ELSE IF is_none(board_tiles[position.row][position.column])
            /\ position \notin DOMAIN map
        THEN Panic("unwrap on None")
    ELSE LET acc == PrimaryPass(position, map, sum, word_multiplier)
         IN  IF position = coordinate_max THEN Ok(acc[1] * acc[2])
             ELSE PrimaryLoop(Step(position, delta), coordinate_max, delta,
                              map, acc[1], acc[2])

\* The upper end of the walk of score_primary_axis (game_models.rs:439).
PrimaryWalkEnd(tiles, axis) ==
    min_connected_position(tiles[Len(tiles)].coordinates, axis)

score_primary_axis(tiles, axis) ==
    IF Len(tiles) = 0 THEN Ok(0)
    ELSE LET map == played_tile_map(tiles)
             coordinate_min == min_connected_position(tiles[1].coordinates, axis)
             coordinate_max == PrimaryWalkEnd(tiles, axis)
         IN  PrimaryLoop(coordinate_min, coordinate_max, AxisDelta(axis), map, 0, 1)

RECURSIVE SumSeq(_)
SumSeq(s) == IF s = <<>> THEN 0 ELSE s[1] + SumSeq(Tail(s))

\* The values score_secondary_axis returns inside the for loop of score.
SecondaryScores(tiles, secondary_axis) ==
    [i \in 1..Len(tiles) |-> score_secondary_axis(tiles[i], secondary_axis)]

\* Mutant of BingoBonus: the bonus for seven tiles or more.
BingoBonus_at_least(n) == IF n >= BINGO_TILES_LENGTH THEN BINGO_BONUS ELSE 0

BingoBonus(n) == IF n = BINGO_TILES_LENGTH THEN BINGO_BONUS ELSE 0

score(tiles) ==
    LET axis == primary_axis(tiles)
    IN  IF is_panic(axis) THEN axis
        ELSE IF Len(tiles) = 0 THEN Ok(0)
        ELSE LET secondary == IF Len(tiles) > 1
                                 THEN SecondaryScores(tiles, complement(axis[2]))
                                 ELSE <<>>
                 primary == score_primary_axis(tiles, axis[2])
             IN  IF \E i \in 1..Len(secondary) : is_panic(secondary[i])
                     THEN Panic("secondary axis")
                 ELSE IF is_panic(primary) THEN primary
                 ELSE Ok(SumSeq([i \in 1..Len(secondary) |-> secondary[i][2]])
                         + primary[2] + BingoBonus(Len(tiles)))

\* What the two helpers returned to the score call on tiles.
ScoreContributions(tiles) ==
    LET axis == primary_axis(tiles)
    IN  IF is_panic(axis) THEN [secondary |-> <<>>, primary |-> axis]
        ELSE [secondary |-> IF Len(tiles) > 1
                               THEN SecondaryScores(tiles, complement(axis[2]))
                               ELSE <<>>,
              primary |-> score_primary_axis(tiles, axis[2])]

(* ---------------- utilities.rs ---------------- *)
\* Index vectors are sequences of 0-based indices; position i of the code is
\* position i + 1 of the sequence.

\* The while loop of next_combination, i counted as in the code: the index
\* to increment, or -1 where the code returns None.
RECURSIVE CombinationPivot(_, _, _)
CombinationPivot(selection, population_size, i) ==
    IF selection[i + 1] = population_size - Len(selection) + i
    THEN IF i = 0 THEN -1 ELSE CombinationPivot(selection, population_size, i - 1)
    ELSE i

\* Mutant of next_combination: the entries after the incremented one are
\* left as they were.
next_combination_keep_tail(selection, population_size) ==
    LET selection_size == Len(selection)
        i == CombinationPivot(selection, population_size, selection_size - 1)
    IN  IF i = -1 THEN None
        ELSE Some([selection EXCEPT ![i + 1] = selection[i + 1] + 1])

\* Called with 1 <= len(selection) <= population_size.
next_combination(selection, population_size) ==
    LET selection_size == Len(selection)
        i == CombinationPivot(selection, population_size, selection_size - 1)
    IN  IF i = -1 THEN None
        ELSE Some([j \in 1..selection_size |->
                     IF j - 1 < i THEN selection[j]
                     ELSE selection[i + 1] + 1 + (j - 1) - i])

\* Mutant of get_first: None for two entries as well.
get_first_short(permutation) ==
    IF Len(permutation) <= 2 THEN None
    ELSE LET rising == {index \in 0..(Len(permutation) - 2) :
                            permutation[index + 1] < permutation[index + 2]}
         IN  IF rising = {} THEN None
             ELSE Some(CHOOSE index \in rising : \A other \in rising : other <= index)

\* Option<usize>: the last index whose entry is below its successor.
get_first(permutation) ==
    IF Len(permutation) = 1 THEN None
    ELSE LET rising == {index \in 0..(Len(permutation) - 2) :
                            permutation[index + 1] < permutation[index + 2]}
         IN  IF rising = {} THEN None
             ELSE Some(CHOOSE index \in rising : \A other \in rising : other <= index)

\* The first while loop of next_permutation: step to_swap down to an entry
\* above permutation[first].
RECURSIVE SwapTarget(_, _, _)
SwapTarget(permutation, first, to_swap) ==
    IF permutation[first + 1] >= permutation[to_swap + 1]
    THEN SwapTarget(permutation, first, to_swap - 1)
    ELSE to_swap

swap(permutation, i, j) ==
    [permutation EXCEPT ![i + 1] = permutation[j + 1], ![j + 1] = permutation[i + 1]]

\* Mutant of ReverseTail: the tail is left in descending order.
ReverseTail_skipped(permutation, first, to_swap) == permutation

\* The second while loop of next_permutation: reverse first..to_swap.
RECURSIVE ReverseTail(_, _, _)
ReverseTail(permutation, first, to_swap) ==
    IF first < to_swap
    THEN ReverseTail(swap(permutation, first, to_swap), first + 1, to_swap - 1)
    ELSE permutation

\* Called with len(permutation) >= 1.
\* Mutant of next_permutation: the descending arrangement is followed by
\* the ascending one, as in a cyclic successor.
next_permutation_cyclic(permutation) ==
    LET first == get_first(permutation)
    IN  IF is_none(first) THEN Some([k \in 1..Len(permutation) |-> k - 1])
        ELSE LET to_swap == SwapTarget(permutation, unwrap(first), Len(permutation) - 1)
                 swapped == swap(permutation, unwrap(first), to_swap)
             IN  Some(ReverseTail(swapped, unwrap(first) + 1, Len(permutation) - 1))

next_permutation(permutation) ==
    LET first == get_first(permutation)
    IN  IF is_none(first) THEN None
        ELSE LET to_swap == SwapTarget(permutation, unwrap(first), Len(permutation) - 1)
                 swapped == swap(permutation, unwrap(first), to_swap)
             IN  Some(ReverseTail(swapped, unwrap(first) + 1, Len(permutation) - 1))

(* ---------------- the derived ordering of Tile ---------------- *)
\* char's Ord on the capital letters.
LetterRank(l) ==
    CHOOSE i \in 1..26 :
        <<"A", "B", "C", "D", "E", "F", "G", "H", "I", "J", "K", "L", "M",
          "N", "O", "P", "Q", "R", "S", "T", "U", "V", "W", "X", "Y", "Z">>[i] = l

cmp_i32(a, b) == IF a < b THEN "Less" ELSE IF a = b THEN "Equal" ELSE "Greater"

\* bool's Ord: false < true.
cmp_bool(a, b) == IF a = b THEN "Equal" ELSE IF b THEN "Less" ELSE "Greater"

\* Mutant of cmp_letter: None sorts after Some.
cmp_letter_none_last(a, b) ==
    IF is_none(a) /\ is_none(b) THEN "Equal"
    ELSE IF is_none(a) THEN "Greater"
    ELSE IF is_none(b) THEN "Less"
    ELSE cmp_i32(LetterRank(unwrap(a)), LetterRank(unwrap(b)))

\* Option<char>'s Ord: None < Some(_), two Some by their chars.
cmp_letter(a, b) ==
    IF is_none(a) /\ is_none(b) THEN "Equal"
    ELSE IF is_none(a) THEN "Less"
    ELSE IF is_none(b) THEN "Greater"
    ELSE cmp_i32(LetterRank(unwrap(a)), LetterRank(unwrap(b)))

\* Mutant of Tile_cmp: is_blank declared, and so compared, before value.
Tile_cmp_blank_first(a, b) ==
    IF cmp_letter(a.letter, b.letter) # "Equal" THEN cmp_letter(a.letter, b.letter)
    ELSE IF cmp_bool(a.is_blank, b.is_blank) # "Equal" THEN cmp_bool(a.is_blank, b.is_blank)
    ELSE cmp_i32(a.value, b.value)

\* #[derive(Ord)] on Tile: the fields compared in declaration order, letter,
\* value, is_blank, the first difference deciding.
Tile_cmp(a, b) ==
    IF cmp_letter(a.letter, b.letter) # "Equal" THEN cmp_letter(a.letter, b.letter)
    ELSE IF cmp_i32(a.value, b.value) # "Equal" THEN cmp_i32(a.value, b.value)
    ELSE cmp_bool(a.is_blank, b.is_blank)

(* ---------------- Rack::fill_blanks ---------------- *)
\* Number of letterless tiles among the first n tiles.
RECURSIVE LetterlessBefore(_, _)
LetterlessBefore(tiles, n) ==
    IF n = 0 THEN 0
    ELSE LetterlessBefore(tiles, n - 1) + (IF is_letterless(tiles[n]) THEN 1 ELSE 0)

\* Mutant of fill_blanks: fill_index is never advanced.
fill_blanks_first_fill(tiles, letter_fills) ==
    LET blank_count == LetterlessBefore(tiles, Len(tiles))
    IN  IF Len(letter_fills) # blank_count
        THEN Panic("Mismatch in number of blanks and letter fillers.")
        ELSE Ok([k \in 1..Len(tiles) |->
                    IF is_letterless(tiles[k])
                    THEN Tile(Some(letter_fills[1]), tiles[k].value, tiles[k].is_blank)
                    ELSE tiles[k]])

\* Result<Vec<Tile>>: panics when the number of fills is not the number of blanks.
fill_blanks(tiles, letter_fills) ==
    LET blank_count == LetterlessBefore(tiles, Len(tiles))
    IN  IF Len(letter_fills) # blank_count
        THEN Panic("Mismatch in number of blanks and letter fillers.")
        ELSE Ok([k \in 1..Len(tiles) |->
                    IF is_letterless(tiles[k])
                    THEN Tile(Some(letter_fills[LetterlessBefore(tiles, k)]),
                              tiles[k].value, tiles[k].is_blank)
                    ELSE tiles[k]])

(* ---------------- Controller::candidate_plays ---------------- *)
PLAY_ATTEMPTS_LIMIT == 10
BLANK_FILLERS == <<"S", "E", "R", "A", "T">>
\* b'A'..=b'Z'
Alphabet == <<"A", "B", "C", "D", "E", "F", "G", "H", "I", "J", "K", "L", "M",
              "N", "O", "P", "Q", "R", "S", "T", "U", "V", "W", "X", "Y", "Z">>

\* Mutant of all_in_dictionary: only the primary word is looked up.
all_in_dictionary_first(created) == created[1] \in dictionary

\* controller.rs:253: every word is in the dictionary.
all_in_dictionary(created) ==
    \A k \in 1..Len(created) : created[k] \in dictionary

\* controller.rs:232: the negation of the skip condition.
is_legal_position(tiles) == is_connected(tiles) \/ is_through_center(tiles)

\* The body of the inner while loop for one ordering: the candidate pushed,
\* if any.  An entry is a played-tiles list with its score; panicked marks a
\* panic inside words_created or score.
Entry(play, points, panicked) == [play |-> play, score |-> points, panicked |-> panicked]

TryOrdering(tiles, start_coordinates, axis, index_selection, ordering) ==
    LET tiles_permutation ==
            [k \in 1..Len(ordering) |-> tiles[index_selection[ordering[k] + 1] + 1]]
        built == build_played_tiles(start_coordinates, tiles_permutation, axis)
    IN  IF is_err(built) THEN <<>>
        ELSE LET created == words_created(built[2])
             IN  IF is_panic(created) THEN <<Entry(built[2], 0, TRUE)>>
                 ELSE IF all_in_dictionary(created[2])
                      THEN LET points == score(built[2])
                           IN  IF is_panic(points) THEN <<Entry(built[2], 0, TRUE)>>
                               ELSE <<Entry(built[2], points[2], FALSE)>>
                      ELSE <<>>

\* while ordering.is_some()
RECURSIVE OrderingLoop(_, _, _, _, _, _)
OrderingLoop(tiles, start_coordinates, axis, index_selection, ordering, acc) ==
    IF is_none(ordering) THEN acc
    ELSE OrderingLoop(tiles, start_coordinates, axis, index_selection,
                      next_permutation(unwrap(ordering)),
                      acc \o TryOrdering(tiles, start_coordinates, axis,
                                         index_selection, unwrap(ordering)))

\* while index_selection.is_some()
RECURSIVE SelectionLoop(_, _, _, _, _, _)
SelectionLoop(tiles, start_coordinates, axis, num_tiles, index_selection, acc) ==
    IF is_none(index_selection) THEN acc
    ELSE SelectionLoop(tiles, start_coordinates, axis, num_tiles,
                       next_combination(unwrap(index_selection), Len(tiles)),
                       OrderingLoop(tiles, start_coordinates, axis,
                                    unwrap(index_selection),
                                    Some([k \in 1..num_tiles |-> k - 1]), acc))

\* The body of the for loop over num_tiles (controller.rs:225-260).
SearchAt(tiles, start_coordinates, axis, num_tiles) ==
    LET feasibility_tiles == [k \in 1..num_tiles |-> tiles[k]]
        built == build_played_tiles(start_coordinates, feasibility_tiles, axis)
    IN  IF is_err(built) THEN <<>>
        ELSE IF ~is_legal_position(built[2]) THEN <<>>
        ELSE SelectionLoop(tiles, start_coordinates, axis, num_tiles,
                           Some([k \in 1..num_tiles |-> k - 1]), <<>>)

\* parts[lo] \o ... \o parts[hi], by halving: what a loop that extends a
\* Vec with each part in turn leaves in it.
RECURSIVE Flatten(_, _, _)
Flatten(parts, lo, hi) ==
    IF lo > hi THEN <<>>
    ELSE IF lo = hi THEN parts[lo]
    ELSE Flatten(parts, lo, (lo + hi) \div 2)
            \o Flatten(parts, ((lo + hi) \div 2) + 1, hi)

\* The four nested for loops (controller.rs:217-224) in loop order: rows,
\* then columns, then the two axes, then num_tiles.
SearchLoop(tiles) ==
    LET per_start == 2 * Len(tiles)
        steps == rows * columns * per_start
        found_at ==
            [k \in 1..steps |->
                LET cell == (k - 1) \div per_start
                    start_coordinates == Coordinates(cell \div columns, cell % columns)
                    axis == Axes[(((k - 1) % per_start) \div Len(tiles)) + 1]
                    num_tiles == ((k - 1) % Len(tiles)) + 1
                    occupied == is_occupied(start_coordinates)
                IN  IF (IF is_ok(occupied) THEN occupied[2] ELSE TRUE)
                    THEN <<>>
                    ELSE SearchAt(tiles, start_coordinates, axis, num_tiles)]
    IN  Flatten(found_at, 1, steps)

\* Mutant of BlankFills: the first two blanks take the pair of letters, the
\* later ones the fixed fillers.
BlankFills_first_two(letterless_count, ch_1, ch_2) ==
    [index \in 1..letterless_count |->
        IF index = 1 THEN ch_1
        ELSE IF index = 2 THEN ch_2
        ELSE BLANK_FILLERS[((index - 3) % Len(BLANK_FILLERS)) + 1]]

\* The letter_fills tried for a rack with letterless_count >= 2 blanks.
BlankFills(letterless_count, ch_1, ch_2) ==
    [index \in 1..letterless_count |->
        IF index <= letterless_count - 2
        THEN BLANK_FILLERS[((index - 1) % Len(BLANK_FILLERS)) + 1]
        ELSE IF index = letterless_count - 1 THEN ch_1 ELSE ch_2]

\* What rack.fill_blanks returned to the loops of the blank branch
\* (controller.rs:187-211), in loop order.
FillResults(tiles) ==
    LET letterless_count == LetterlessBefore(tiles, Len(tiles))
    IN  IF letterless_count = 1
        THEN [k \in 1..Len(Alphabet) |-> fill_blanks(tiles, <<Alphabet[k]>>)]
        ELSE [k \in 1..(Len(Alphabet) * Len(Alphabet)) |->
                fill_blanks(tiles,
                    BlankFills(letterless_count,
                               Alphabet[((k - 1) \div Len(Alphabet)) + 1],
                               Alphabet[((k - 1) % Len(Alphabet)) + 1]))]

\* The Vec a call of candidate_plays returns, as entries: with a letterless
\* tile on the rack the results of the recursive calls on the filled racks,
\* one after the other, otherwise the result of the four loops.  A panic of
\* fill_blanks is an entry marked panicked.
RECURSIVE SearchRack(_)
SearchRack(tiles) ==
    IF \E i \in 1..Len(tiles) : is_letterless(tiles[i])
    THEN LET results == FillResults(tiles)
         IN  IF \E k \in 1..Len(results) : is_panic(results[k])
             THEN <<Entry(<<>>, 0, TRUE)>>
             ELSE Flatten([k \in 1..Len(results) |-> SearchRack(results[k][2])],
                          1, Len(results))
    ELSE SearchLoop(tiles)

\* Result<Vec<(Vec<PlayedTile>, i32)>>: a panic in fill_blanks, words_created
\* or score ends the call.
candidate_plays(tiles) ==
    LET found == SearchRack(tiles)
    IN  IF \E k \in 1..Len(found) : found[k].panicked THEN Panic("candidate_plays")
        ELSE Ok([k \in 1..Len(found) |-> <<found[k].play, found[k].score>>])

(* ---------------- Controller::play_turn ---------------- *)
\* The keys of the pairs in increasing order, each once.
SortedKeys(pairs) ==
    LET keys == {-pairs[i][2] : i \in 1..Len(pairs)}
    IN  [p \in 1..Cardinality(keys) |->
            CHOOSE key \in keys : Cardinality({other \in keys : other < key}) = p - 1]

\* candidates.sort_by_key(|pair| -pair.1): a stable sort, so the pairs come
\* by increasing key and, within one key, in the order they had.
sort_by_key(pairs) ==
    LET keys == SortedKeys(pairs)
        with_key(p) == LET has_key(pair) == -pair[2] = keys[p]
                       IN  SelectSeq(pairs, has_key)
    IN  Flatten([p \in 1..Len(keys) |-> with_key(p)], 1, Len(keys))

\* Mutant of AttemptLimit: the whole list is gone through.
AttemptLimit_uncapped(candidates_len) == candidates_len

\* cmp::min(candidates.len(), PLAY_ATTEMPTS_LIMIT as usize)
AttemptLimit(candidates_len) ==
    IF candidates_len < PLAY_ATTEMPTS_LIMIT THEN candidates_len ELSE PLAY_ATTEMPTS_LIMIT

\* Mutant of attempts_exhausted: the loop ends after its first pass.
attempts_exhausted_after_one(made, limit) == made >= 1 \/ made >= limit

\* The for loop over candidates[..attempt_limit] has no element left after
\* made passes.
attempts_exhausted(made, limit) == made >= limit

\* The Vec<FlatPlayedTileSerializer> built from a candidate.
serializable_play(candidate_play) ==
    [k \in 1..Len(candidate_play) |->
        [is_blank |-> candidate_play[k].tile.is_blank,
         value |-> candidate_play[k].tile.value,
         row |-> candidate_play[k].coordinates.row,
         column |-> candidate_play[k].coordinates.column,
         is_exchange |-> FALSE,
         letter |-> candidate_play[k].tile.letter]]

\* Mutant of AfterResponse: the branch without check_score does not return.
AfterResponse_continue(accepted) ==
    IF accepted /\ check_score THEN "verify_score" ELSE "attempt"

\* Where play_turn goes after client.play_turn answered: into verify_score,
\* out of the function, or on to the next candidate.
AfterResponse(accepted) ==
    IF accepted THEN (IF check_score THEN "verify_score" ELSE "returned")
    ELSE "attempt"

\* What client.get_game may answer to verify_score: an error, or a game state
\* whose prev_move is absent or carries the server's score.
GetGameResponses(expected_score) ==
    {Err("get_game"), Ok(None), Ok(Some(expected_score)), Ok(Some(expected_score + 1))}

\* Result<String, String>
verify_score(response, expected_score) ==
    IF ~is_ok(response) THEN Err("Failed to get game state")
    ELSE IF is_none(response[2]) THEN Err("prev move is none")
    ELSE IF unwrap(response[2]) # expected_score THEN Err("Expected score")
    ELSE Ok("Successfully played turn for points")

\* Mutant of VerifiedReturn: the verification's error is returned as it is.
VerifiedReturn_propagate(verified) == verified

\* The match on verify_score's result in play_turn.
VerifiedReturn(verified) ==
    IF is_ok(verified) THEN Ok(verified[2]) ELSE Ok("Error verifying score.")

(* ---------------- explored inputs ---------------- *)
\* Tiles as the game deals them: a letter with its value.
TileA == Tile(Some("A"), 1, FALSE)
TileB == Tile(Some("B"), 3, FALSE)
TileKinds == {TileA, TileB}

\* A board of MaxRows x MaxColumns, and a single line long enough for a
\* placement of BINGO_TILES_LENGTH tiles that skips a fixed tile.
LineLength == BINGO_TILES_LENGTH + 1
LineDims == <<1, LineLength>>
BoardDims == {<<MaxRows, MaxColumns>>, LineDims}

\* Fixed tiles on the board: up to MaxFixed, on the line at most one.
FixedLimit(dims) == IF dims = LineDims THEN 1 ELSE MaxFixed

\* The fixed tiles of a board alternate between the two kinds from cell to
\* cell, starting with either.
FixedTileAt(phase, r, c) == IF (r + c + phase) % 2 = 0 THEN TileA ELSE TileB

CellsOf(nrows, ncolumns) ==
    {Coordinates(r, c) : r \in 0..(nrows - 1), c \in 0..(ncolumns - 1)}

\* The modifier layout: every pair of multipliers from 1 to 3 occurs, (1,1)
\* at the origin.
LayoutModifier(r, c) == Modifier(1 + ((r + 2 * c) % 3), 1 + ((r + c) % 3))

RECURSIVE SeqsUpTo(_, _)
SeqsUpTo(S, n) ==
    IF n = 0 THEN {<<>>}
    ELSE LET shorter == SeqsUpTo(S, n - 1)
         IN  shorter \cup {Append(q, x) : q \in {t \in shorter : Len(t) = n - 1}, x \in S}

AlternatingTiles(n) == [i \in 1..n |-> IF i % 2 = 1 THEN TileA ELSE TileB]

\* Tile sequences handed to build_played_tiles: every sequence of up to
\* MaxTiles tiles, and one sequence of each greater length up to LineLength;
\* a board is handed those no longer than its longer side plus one.
TileSeqs ==
    SeqsUpTo(TileKinds, MaxTiles)
        \cup {AlternatingTiles(n) : n \in (MaxTiles + 1)..LineLength}

\* A letterless tile as the game deals it.
BlankTile == Tile(None, 0, TRUE)

\* Racks handed to candidate_plays: every rack of fewer than MaxRack lettered
\* tiles, two racks of MaxRack lettered tiles (all A but a final B, and A and
\* B in alternation), and a rack holding a blank.
FullRacks ==
    {[i \in 1..MaxRack |-> IF i = MaxRack THEN TileB ELSE TileA],
     AlternatingTiles(MaxRack)}
Racks == SeqsUpTo(TileKinds, MaxRack - 1) \cup FullRacks \cup {<<TileB, BlankTile>>}

\* Dictionaries: the words in which A and B alternate, and the words that
\* start with A, up to MaxWord letters.
WordsUpTo(n) == SeqsUpTo({"A", "B"}, n) \ {<<>>}
AlternatingWords ==
    {w \in WordsUpTo(MaxWord) : \A k \in 1..(Len(w) - 1) : w[k] # w[k + 1]}
WordsFromA == {w \in WordsUpTo(MaxWord) : w[1] = "A"}
Dictionaries == {AlternatingWords, WordsFromA}

NoCall == [start |-> Coordinates(0, 0), tiles |-> <<>>, axis |-> "none"]
NoContributions == [secondary |-> <<>>, primary |-> NoResult]

InitBoard ==
    \E dims \in BoardDims :
        /\ rows = dims[1]
        /\ columns = dims[2]
        /\ \E occupied \in SUBSET CellsOf(dims[1], dims[2]) :
              /\ Cardinality(occupied) <= FixedLimit(dims)
              /\ \E phase \in {0, 1} :
                    board_tiles =
                        [r \in 0..(dims[1] - 1) |-> [c \in 0..(dims[2] - 1) |->
                            IF Coordinates(r, c) \in occupied
                               THEN Some(FixedTileAt(phase, r, c)) ELSE None]]
        /\ modifiers = [r \in 0..(dims[1] - 1) |-> [c \in 0..(dims[2] - 1) |->
                            LayoutModifier(r, c)]]

\* Nothing called yet.
InitBoardResults ==
    /\ call = NoCall
    /\ played_tiles = NoResult
    /\ passed = <<>>
    /\ words = NoResult
    /\ total = NoResult
    /\ contributions = NoContributions
    /\ candidates = NoResult

InitUtilities ==
    /\ fills = <<>>
    /\ filled = NoResult
    /\ operands = <<>>
    /\ orderings = <<>>
    /\ population = 0
    /\ current = None
    /\ yielded = <<>>

\* poll has not run.
InitPoll ==
    /\ games = <<>>
    /\ listing = NoResult
    /\ pending = <<>>
    /\ fetches = <<>>
    /\ turns = <<>>

\* candidate_plays has not been entered.
InitLoops ==
    /\ frames = <<>>
    /\ searching = <<>>
    /\ cursor = 0
    /\ chosen = None
    /\ feasible = <<>>
    /\ skipped = 0

InitTurn ==
    /\ attempt_limit = 0
    /\ attempt = 0
    /\ submissions = <<>>
    /\ verifications = <<>>
    /\ returned = NoResult

InitResults ==
    /\ pc = "new"
    /\ InitBoardResults
    /\ InitPoll
    /\ InitLoops
    /\ InitUtilities
    /\ check_score = FALSE
    /\ InitTurn

Init ==
    /\ InitBoard
    /\ rack = <<>>
    /\ dictionary = {}
    /\ InitResults

(* ---------------- operations on the board ---------------- *)
BuildPlayedTiles ==
    \E start \in CellsOf(rows, columns), axis \in {"Horizontal", "Vertical"},
       tiles \in TileSeqs :
        /\ pc = "new"
        /\ Len(tiles) <= (IF rows > columns THEN rows ELSE columns) + 1
        /\ call' = [start |-> start, tiles |-> tiles, axis |-> axis]
        /\ played_tiles' = build_played_tiles(start, tiles, axis)
        /\ pc' = "build_played_tiles"
        /\ passed' = <<>>
        /\ words' = NoResult
        /\ total' = NoResult
        /\ contributions' = NoContributions
        /\ UNCHANGED <<boardVars, pollVars, loopVars, candidates, utilVars, turnVars>>

WordsCreated ==
    /\ is_ok(played_tiles)
    /\ passed' = played_tiles[2]
    /\ words' = words_created(played_tiles[2])
    /\ pc' = "words_created"
    /\ total' = NoResult
    /\ contributions' = NoContributions
    /\ UNCHANGED <<boardVars, pollVars, loopVars, call, played_tiles, candidates, utilVars, turnVars>>

Score ==
    /\ is_ok(played_tiles)
    /\ passed' = played_tiles[2]
    /\ total' = score(played_tiles[2])
    /\ contributions' = ScoreContributions(played_tiles[2])
    /\ pc' = "score"
    /\ words' = NoResult
    /\ UNCHANGED <<boardVars, pollVars, loopVars, call, played_tiles, candidates, utilVars, turnVars>>

Next == BuildPlayedTiles \/ WordsCreated \/ Score

Spec == Init /\ [][Next]_vars

(* ---------------- callers that reorder the list ---------------- *)
\* The orders a caller may hand a built list over in: every permutation of
\* up to three tiles, the given order and its reverse beyond.
Orders(n) ==
    IF n <= 3 THEN {f \in [1..n -> 1..n] : \A i, j \in 1..n : f[i] = f[j] => i = j}
    ELSE {[i \in 1..n |-> i], [i \in 1..n |-> n + 1 - i]}

Reordered(tiles, order) == [i \in 1..Len(tiles) |-> tiles[order[i]]]

WordsCreatedReordered ==
    /\ is_ok(played_tiles)
    /\ \E order \in Orders(Len(played_tiles[2])) :
          /\ passed' = Reordered(played_tiles[2], order)
          /\ words' = words_created(Reordered(played_tiles[2], order))
    /\ pc' = "words_created"
    /\ total' = NoResult
    /\ contributions' = NoContributions
    /\ UNCHANGED <<boardVars, pollVars, loopVars, call, played_tiles, candidates, utilVars, turnVars>>

ScoreReordered ==
    /\ is_ok(played_tiles)
    /\ \E order \in Orders(Len(played_tiles[2])) :
          /\ passed' = Reordered(played_tiles[2], order)
          /\ total' = score(Reordered(played_tiles[2], order))
          /\ contributions' = ScoreContributions(Reordered(played_tiles[2], order))
    /\ pc' = "score"
    /\ words' = NoResult
    /\ UNCHANGED <<boardVars, pollVars, loopVars, call, played_tiles, candidates, utilVars, turnVars>>

NextReorder == BuildPlayedTiles \/ WordsCreatedReordered \/ ScoreReordered

SpecReorder == Init /\ [][NextReorder]_vars

(* ---------------- the candidate search ---------------- *)
\* The search is explored on the boards with no fixed tile or a single one.
InitSearch ==
    /\ rows = MaxRows
    /\ columns = MaxColumns
    /\ \E occupied \in {{}} \cup {{cell} : cell \in CellsOf(MaxRows, MaxColumns)} :
          \E phase \in {0, 1} :
                board_tiles =
                    [r \in 0..(MaxRows - 1) |-> [c \in 0..(MaxColumns - 1) |->
                        IF Coordinates(r, c) \in occupied
                           THEN Some(FixedTileAt(phase, r, c)) ELSE None]]
    /\ modifiers = [r \in 0..(MaxRows - 1) |-> [c \in 0..(MaxColumns - 1) |->
                        LayoutModifier(r, c)]]
    /\ rack \in Racks
    /\ dictionary \in Dictionaries
    /\ InitResults

CandidatePlays ==
    /\ pc = "new"
    /\ candidates' = candidate_plays(rack)
    /\ pc' = "candidate_plays"
    /\ UNCHANGED <<boardVars, pollVars, loopVars, call, played_tiles, passed, words, total, contributions,
                   utilVars, turnVars>>

NextSearch == CandidatePlays

SpecSearch == InitSearch /\ [][NextSearch]_vars

(* ---------------- the search with letterless tiles ---------------- *)
\* Racks with letterless tiles are searched on boards of one or two rows and
\* two columns: racks with one letterless tile on every such board with no
\* or one fixed tile, racks with two or three on the boards without fixed
\* tile, and a rack of eight letterless tiles, as many as make the fixed
\* fillers wrap around, on the single row with one cell left.
BlankBoardDims == {<<1, 2>>, <<2, 2>>}

OneBlankRacks ==
    {<<BlankTile>>, <<TileB, BlankTile>>, <<BlankTile, TileA>>,
     <<TileA, BlankTile, TileB>>}

ManyBlankRacks ==
    {<<BlankTile, BlankTile>>, <<BlankTile, TileA, BlankTile, BlankTile>>}

AllBlankRack == [i \in 1..(Len(BLANK_FILLERS) + 3) |-> BlankTile]

\* A dictionary of the words of one or two letters over S, E, A and Z.
FillerWords == SeqsUpTo({"S", "E", "A", "Z"}, 2) \ {<<>>}

InitBlanks ==
    /\ \E dims \in BlankBoardDims :
          /\ rows = dims[1]
          /\ columns = dims[2]
          /\ \E occupied \in {{}} \cup {{cell} : cell \in CellsOf(dims[1], dims[2])} :
                /\ \E phase \in {0, 1} :
                      board_tiles =
                          [r \in 0..(dims[1] - 1) |-> [c \in 0..(dims[2] - 1) |->
                              IF Coordinates(r, c) \in occupied
                                 THEN Some(FixedTileAt(phase, r, c)) ELSE None]]
                /\ rack \in OneBlankRacks
                        \cup (IF occupied = {} THEN ManyBlankRacks ELSE {})
                        \cup (IF occupied = {Coordinates(0, 1)} /\ dims[1] = 1
                              THEN {AllBlankRack} ELSE {})
          /\ modifiers = [r \in 0..(dims[1] - 1) |-> [c \in 0..(dims[2] - 1) |->
                              LayoutModifier(r, c)]]
    /\ dictionary \in {AlternatingWords, FillerWords}
    /\ InitResults

SpecBlanks == InitBlanks /\ [][NextSearch]_vars

(* ---------------- Rack::fill_blanks ---------------- *)
\* Tiles of the racks handed to fill_blanks: a lettered tile, a blank that
\* has its letter, and two letterless tiles that differ in value and flag.
FillKinds == {TileA, Tile(Some("B"), 0, TRUE), BlankTile, Tile(None, 1, FALSE)}
FillRacks == SeqsUpTo(FillKinds, MaxRack)
FillSeqs == SeqsUpTo({"S", "E"}, MaxRack)

\* No board is involved in the calls below.
InitNoBoard ==
    /\ rows = 0
    /\ columns = 0
    /\ board_tiles = <<>>
    /\ modifiers = <<>>
    /\ dictionary = {}

InitFill ==
    /\ InitNoBoard
    /\ rack \in FillRacks
    /\ InitResults

\* fill_blanks borrows the rack (&self) and returns a new one.
FillBlanks ==
    /\ pc = "new"
    /\ \E letters \in FillSeqs :
          /\ fills' = letters
          /\ filled' = fill_blanks(rack, letters)
    /\ pc' = "fill_blanks"
    /\ UNCHANGED <<boardVars, pollVars, loopVars, call, played_tiles, passed, words, total, contributions,
                   candidates, operands, orderings, population, current, yielded,
                   turnVars>>

NextFill == FillBlanks

SpecFill == InitFill /\ [][NextFill]_vars

(* ---------------- comparing Tiles ---------------- *)
MaxValue == 1

\* Every Tile without a letter or with one of two letters, of value up to
\* MaxValue, blank or not.
TileUniverse ==
    {Tile(l, v, b) : l \in {None, Some("A"), Some("B")}, v \in 0..MaxValue, b \in BOOLEAN}

InitOrder ==
    /\ InitNoBoard
    /\ rack = <<>>
    /\ pc = "new"
    /\ InitBoardResults
    /\ InitPoll
    /\ InitLoops
    /\ fills = <<>>
    /\ filled = NoResult
    /\ operands \in [1..3 -> TileUniverse]
    /\ orderings = <<>>
    /\ population = 0
    /\ current = None
    /\ yielded = <<>>
    /\ check_score = FALSE
    /\ InitTurn

CompareTiles ==
    /\ pc = "new"
    /\ orderings' = [i \in 1..3 |-> [j \in 1..3 |-> Tile_cmp(operands[i], operands[j])]]
    /\ pc' = "cmp"
    /\ UNCHANGED <<boardVars, pollVars, loopVars, call, played_tiles, passed, words, total, contributions,
                   candidates, fills, filled, operands, population, current, yielded,
                   turnVars>>

NextOrder == CompareTiles

SpecOrder == InitOrder /\ [][NextOrder]_vars

(* ---------------- iterating next_combination ---------------- *)
MaxPopulation == 6

\* [0, 1, ..., k - 1]
Identity(k) == [i \in 1..k |-> i - 1]

\* The values of every variable but those of the iteration.
InitIteration ==
    /\ InitNoBoard
    /\ rack = <<>>
    /\ pc = "new"
    /\ InitBoardResults
    /\ InitPoll
    /\ InitLoops
    /\ fills = <<>>
    /\ filled = NoResult
    /\ operands = <<>>
    /\ orderings = <<>>
    /\ check_score = FALSE
    /\ InitTurn

InitCombination ==
    /\ InitIteration
    /\ population \in 1..MaxPopulation
    /\ \E k \in 1..population :
          /\ current = Some(Identity(k))
          /\ yielded = <<Identity(k)>>

\* The caller's loop: hand the last selection back until None comes.
NextCombination ==
    /\ is_some(current)
    /\ LET next == next_combination(unwrap(current), population)
       IN  /\ current' = next
           /\ yielded' = IF is_some(next) THEN Append(yielded, unwrap(next)) ELSE yielded
    /\ pc' = "next_combination"
    /\ UNCHANGED <<boardVars, pollVars, loopVars, call, played_tiles, passed, words, total, contributions,
                   candidates, fills, filled, operands, orderings, population, turnVars>>

NextCombinations == NextCombination

SpecCombination == InitCombination /\ [][NextCombinations]_vars

(* ---------------- iterating next_permutation ---------------- *)
MaxPermutation == 5

InitPermutation ==
    /\ InitIteration
    /\ population = 0
    /\ \E k \in 1..MaxPermutation :
          /\ current = Some(Identity(k))
          /\ yielded = <<Identity(k)>>

\* The caller's loop: hand the last permutation back until None comes.
NextPermutation ==
    /\ is_some(current)
    /\ LET next == next_permutation(unwrap(current))
       IN  /\ current' = next
           /\ yielded' = IF is_some(next) THEN Append(yielded, unwrap(next)) ELSE yielded
    /\ pc' = "next_permutation"
    /\ UNCHANGED <<boardVars, pollVars, loopVars, call, played_tiles, passed, words, total, contributions,
                   candidates, fills, filled, operands, orderings, population, turnVars>>

NextPermutations == NextPermutation

SpecPermutation == InitPermutation /\ [][NextPermutations]_vars

(* ---------------- playing a turn ---------------- *)
\* Racks handed to play_turn: an empty one, short ones, one with a blank and
\* one of MaxRack tiles.
TurnRacks ==
    {<<>>, <<TileA>>, <<TileA, TileB>>, <<TileB, BlankTile>>, AlternatingTiles(MaxRack)}

InitPlayTurn ==
    /\ rows = MaxRows
    /\ columns = MaxColumns
    /\ \E occupied \in {{}} \cup {{cell} : cell \in CellsOf(MaxRows, MaxColumns)} :
          \E phase \in {0, 1} :
                board_tiles =
                    [r \in 0..(MaxRows - 1) |-> [c \in 0..(MaxColumns - 1) |->
                        IF Coordinates(r, c) \in occupied
                           THEN Some(FixedTileAt(phase, r, c)) ELSE None]]
    /\ modifiers = [r \in 0..(MaxRows - 1) |-> [c \in 0..(MaxColumns - 1) |->
                        LayoutModifier(r, c)]]
    /\ rack \in TurnRacks
    /\ dictionary \in Dictionaries
    /\ pc = "new"
    /\ InitBoardResults
    /\ InitPoll
    /\ InitLoops
    /\ InitUtilities
    /\ check_score \in BOOLEAN
    /\ InitTurn

\* play_turn's call of candidate_plays; its panic unwinds through play_turn.
PlayTurnBegin ==
    /\ pc = "new"
    /\ candidates' = candidate_plays(rack)
    /\ pc' = IF is_ok(candidates') THEN "sort" ELSE "panicked"
    /\ UNCHANGED <<boardVars, pollVars, loopVars, call, played_tiles, passed, words, total, contributions,
                   utilVars, turnVars>>

\* The candidates are sorted in place and the limit is taken.
SortCandidates ==
    /\ pc = "sort"
    /\ candidates' = Ok(sort_by_key(candidates[2]))
    /\ attempt_limit' = AttemptLimit(Len(candidates[2]))
    /\ attempt' = 0
    /\ pc' = "attempt"
    /\ UNCHANGED <<boardVars, pollVars, loopVars, call, played_tiles, passed, words, total, contributions,
                   utilVars, check_score, submissions, verifications, returned>>

\* One pass of the for loop: the candidate is serialized and submitted, and
\* the server accepts it or not.
Submit ==
    /\ pc = "attempt"
    /\ ~attempts_exhausted(attempt, attempt_limit)
    /\ \E accepted \in BOOLEAN :
          /\ submissions' = Append(submissions,
                [tiles |-> serializable_play(candidates[2][attempt + 1][1]),
                 score |-> candidates[2][attempt + 1][2],
                 accepted |-> accepted])
          /\ pc' = AfterResponse(accepted)
          /\ returned' = IF accepted /\ ~check_score
                         THEN Ok("Successfully played turn")
                         ELSE returned
    /\ attempt' = attempt + 1
    /\ UNCHANGED <<boardVars, pollVars, loopVars, call, played_tiles, passed, words, total, contributions,
                   candidates, utilVars, check_score, attempt_limit, verifications>>

\* verify_score after an accepted submission: the game is fetched again and
\* play_turn returns.
VerifyScore ==
    /\ pc = "verify_score"
    /\ \E response \in GetGameResponses(submissions[Len(submissions)].score) :
          /\ verifications' = Append(verifications,
                [response |-> response, submitted |-> Len(submissions)])
          /\ returned' = VerifiedReturn(
                verify_score(response, submissions[Len(submissions)].score))
    /\ pc' = "returned"
    /\ UNCHANGED <<boardVars, pollVars, loopVars, call, played_tiles, passed, words, total, contributions,
                   candidates, utilVars, check_score, attempt_limit, attempt, submissions>>

\* The for loop ran out of candidates.
PlayTurnFail ==
    /\ pc = "attempt"
    /\ attempts_exhausted(attempt, attempt_limit)
    /\ returned' = Err("Failed to successfully play a turn")
    /\ pc' = "returned"
    /\ UNCHANGED <<boardVars, pollVars, loopVars, call, played_tiles, passed, words, total, contributions,
                   candidates, utilVars, check_score, attempt_limit, attempt, submissions,
                   verifications>>

NextPlayTurn == PlayTurnBegin \/ SortCandidates \/ Submit \/ VerifyScore \/ PlayTurnFail

SpecPlayTurn == InitPlayTurn /\ [][NextPlayTurn]_vars

(* ---------------- Controller::poll ---------------- *)
\* Config.ai_display_name
ai_display_name == "AI"

\* The fields of GameInfo that poll reads.
GameInfo(id, completed, whose_turn_name) ==
    [id |-> id, completed |-> completed, whose_turn_name |-> whose_turn_name]

\* The fields of GameSerializer that is_ai_turn reads.
GameSerializer(game_players, turn_number, fetcher_player_id) ==
    [game_players |-> game_players, turn_number |-> turn_number,
     fetcher_player_id |-> fetcher_player_id]

GamePlayer(turn_order, player_id) == [turn_order |-> turn_order, player |-> [id |-> player_id]]

\* games.into_iter().filter(|game| game.completed.is_none())
filter_active_games(infos) ==
    LET active(info) == is_none(info.completed)
    IN  SelectSeq(infos, active)

\* games.into_iter().filter(|game| game.whose_turn_name.eq(&ai_display_name))
filter_by_ai_name(infos) ==
    LET named(info) == info.whose_turn_name = ai_display_name
    IN  SelectSeq(infos, named)

\* Mutant of is_ai_turn: the player is taken by position in game_players.
is_ai_turn_by_position(game_state) ==
    LET num_players == Len(game_state.game_players)
        turn_order_to_match == game_state.turn_number % num_players
    IN  game_state.game_players[turn_order_to_match + 1].player.id
            = game_state.fetcher_player_id

\* True iff the first game player with turn_order = turn_number % num_players
\* is the fetching player.  A game has at least one player.
is_ai_turn(game_state) ==
    LET num_players == Len(game_state.game_players)
        turn_order_to_match == game_state.turn_number % num_players
        matching == {k \in 1..num_players :
                        game_state.game_players[k].turn_order = turn_order_to_match}
    IN  IF matching = {} THEN FALSE
        ELSE LET first == CHOOSE k \in matching : \A other \in matching : k <= other
             IN  game_state.game_players[first].player.id
                    = game_state.fetcher_player_id

\* The games a cycle goes through: the listed ones, none if the list could
\* not be fetched.
ListedGames(response) == IF is_ok(response) THEN response[2] ELSE <<>>

(* ---- explored poll cycles ---- *)
MaxGames == 3
MaxTurn == 3

\* A listed game is completed or not, and names the AI or someone else as the
\* player to move.
GameKinds ==
    {<<completed, name>> : completed \in {None, Some("2026-01-01")},
                           name \in {ai_display_name, "Human"}}

\* Every list of up to MaxGames games, the id being the place in the list.
GameLists ==
    UNION {{[k \in 1..n |-> GameInfo(k, kinds[k][1], kinds[k][2])] :
                kinds \in [1..n -> GameKinds]} : n \in 0..MaxGames}

\* The AI is player 1.  Two players with the AI first or second in turn
\* order, listed in turn order or not, and three players with the AI last.
PlayerLists ==
    {<<GamePlayer(0, 1), GamePlayer(1, 2)>>,
     <<GamePlayer(1, 1), GamePlayer(0, 2)>>,
     <<GamePlayer(1, 2), GamePlayer(0, 1)>>,
     <<GamePlayer(0, 2), GamePlayer(1, 3), GamePlayer(2, 1)>>}

\* What client.get_game may answer.
GameStates ==
    {GameSerializer(players, turn, 1) : players \in PlayerLists, turn \in 0..MaxTurn}

GetGameAnswers == {Err("get_game")} \cup {Ok(state) : state \in GameStates}

InitPollCycle ==
    /\ InitNoBoard
    /\ rack = <<>>
    /\ pc = "new"
    /\ InitBoardResults
    /\ InitUtilities
    /\ check_score = FALSE
    /\ InitTurn
    /\ InitLoops
    /\ games \in GameLists
    /\ listing = NoResult
    /\ pending = <<>>
    /\ fetches = <<>>
    /\ turns = <<>>

\* client.list_games answers, and the two filters are applied.
ListGames ==
    /\ pc = "new"
    /\ \E response \in {Ok(games), Err("list_games")} :
          /\ listing' = response
          /\ pending' = filter_by_ai_name(filter_active_games(ListedGames(response)))
    /\ pc' = "games"
    /\ UNCHANGED <<boardVars, call, played_tiles, passed, words, total, contributions,
                   candidates, utilVars, turnVars, loopVars, games, fetches, turns>>

\* One pass of the for loop up to the test of is_ai_turn: the game's state is
\* fetched; an error goes on with the next game.
GetGame ==
    /\ pc = "games"
    /\ pending # <<>>
    /\ \E response \in GetGameAnswers :
          /\ fetches' = Append(fetches, [id |-> Head(pending).id, response |-> response])
          /\ pc' = IF is_ok(response) /\ is_ai_turn(response[2])
                   THEN "play_turn" ELSE "games"
    /\ pending' = Tail(pending)
    /\ UNCHANGED <<boardVars, call, played_tiles, passed, words, total, contributions,
                   candidates, utilVars, turnVars, loopVars, games, listing, turns>>

\* The call of play_turn for the game fetched last; poll logs its result.
PollPlayTurn ==
    /\ pc = "play_turn"
    /\ turns' = Append(turns, fetches[Len(fetches)].id)
    /\ \E result \in {Ok("Successfully played turn"),
                      Err("Failed to successfully play a turn")} :
          returned' = result
    /\ pc' = "games"
    /\ UNCHANGED <<boardVars, call, played_tiles, passed, words, total, contributions,
                   candidates, utilVars, check_score, attempt_limit, attempt,
                   submissions, verifications, loopVars, games, listing, pending,
                   fetches>>

\* The for loop is through.
PollDone ==
    /\ pc = "games"
    /\ pending = <<>>
    /\ pc' = "polled"
    /\ UNCHANGED <<boardVars, call, played_tiles, passed, words, total, contributions,
                   candidates, utilVars, turnVars, loopVars, pollVars>>

NextPoll == ListGames \/ GetGame \/ PollPlayTurn \/ PollDone

SpecPoll == InitPollCycle /\ [][NextPoll]_vars

(* ---------------- candidate_plays, pass by pass ---------------- *)
\* The passes the four for loops make for a rack, and the start cell, axis
\* and num_tiles of pass k (rows outermost, num_tiles innermost).
ForPasses(tiles) == rows * columns * 2 * Len(tiles)

StartOf(tiles, k) ==
    Coordinates(((k - 1) \div (2 * Len(tiles))) \div columns,
                ((k - 1) \div (2 * Len(tiles))) % columns)

AxisOf(tiles, k) == Axes[(((k - 1) % (2 * Len(tiles))) \div Len(tiles)) + 1]

NumTilesOf(tiles, k) == ((k - 1) % Len(tiles)) + 1

\* The placement of the feasibility check of pass k, if the pass goes on to
\* the while loops (controller.rs:219-234).
FeasibleOf(tiles, k) ==
    LET occupied == is_occupied(StartOf(tiles, k))
        built == build_played_tiles(StartOf(tiles, k),
                                    [i \in 1..NumTilesOf(tiles, k) |-> tiles[i]],
                                    AxisOf(tiles, k))
    IN  IF (IF is_ok(occupied) THEN occupied[2] ELSE TRUE) THEN None
        ELSE IF is_err(built) THEN None
        ELSE IF ~is_legal_position(built[2]) THEN None
        ELSE Some(built[2])

CellsLaid(tiles) == [i \in 1..Len(tiles) |-> tiles[i].coordinates]

\* tiles_permutation (controller.rs:238-240)
PermutedTiles(tiles, index_selection, ordering) ==
    [k \in 1..Len(ordering) |-> tiles[index_selection[ordering[k] + 1] + 1]]

\* Variables no step of candidate_plays writes.
searchFrame == <<boardVars, pollVars, call, played_tiles, passed, words, total,
                 contributions, fills, filled, operands, orderings, population,
                 yielded, turnVars>>

\* play_turn calls candidate_plays with the rack.
BeginSearch ==
    /\ pc = "new"
    /\ searching' = rack
    /\ candidates' = Ok(<<>>)
    /\ pc' = "called"
    /\ UNCHANGED <<searchFrame, current, frames, cursor, chosen, feasible, skipped>>

\* The test at the head of candidate_plays: the blank branch, or the loops.
EnterCall ==
    /\ pc = "called"
    /\ IF \E i \in 1..Len(searching) : is_letterless(searching[i])
       THEN /\ frames' = Append(frames, [tiles |-> searching, fill |-> 0])
            /\ pc' = "fill"
            /\ UNCHANGED cursor
       ELSE /\ cursor' = 1
            /\ pc' = "for"
            /\ UNCHANGED frames
    /\ UNCHANGED <<searchFrame, candidates, current, searching, chosen, feasible, skipped>>

\* One pass of the loop over the letters in the blank branch: the rack is
\* filled and candidate_plays called on it; after the last pass the branch
\* returns.
FillStep ==
    /\ pc = "fill"
    /\ LET top == frames[Len(frames)]
           results == FillResults(top.tiles)
       IN  IF top.fill < Len(results)
           THEN IF is_panic(results[top.fill + 1])
                THEN pc' = "panicked" /\ UNCHANGED <<frames, searching>>
                ELSE /\ searching' = results[top.fill + 1][2]
                     /\ frames' = [frames EXCEPT ![Len(frames)].fill = @ + 1]
                     /\ pc' = "called"
           ELSE /\ frames' = SubSeq(frames, 1, Len(frames) - 1)
                /\ searching' = top.tiles
                /\ pc' = "return"
    /\ UNCHANGED <<searchFrame, candidates, current, cursor, chosen, feasible, skipped>>

\* The head of a pass of the for loops, up to the first index_selection.
ForStep ==
    /\ pc = "for"
    /\ IF cursor > ForPasses(searching)
       THEN pc' = "return" /\ UNCHANGED <<cursor, chosen, feasible>>
       ELSE IF is_none(FeasibleOf(searching, cursor))
            THEN /\ cursor' = cursor + 1
                 /\ pc' = "for"
                 /\ UNCHANGED <<chosen, feasible>>
            ELSE /\ chosen' = Some([k \in 1..NumTilesOf(searching, cursor) |-> k - 1])
                 /\ feasible' = CellsLaid(unwrap(FeasibleOf(searching, cursor)))
                 /\ pc' = "selection"
                 /\ UNCHANGED cursor
    /\ UNCHANGED <<searchFrame, candidates, current, frames, searching, skipped>>

\* while index_selection.is_some(): the first ordering, or the next pass of
\* the for loops.
SelectionStep ==
    /\ pc = "selection"
    /\ IF is_none(chosen)
       THEN /\ cursor' = cursor + 1
            /\ pc' = "for"
            /\ UNCHANGED current
       ELSE /\ current' = Some([k \in 1..NumTilesOf(searching, cursor) |-> k - 1])
            /\ pc' = "ordering"
            /\ UNCHANGED cursor
    /\ UNCHANGED <<searchFrame, candidates, frames, searching, chosen, feasible, skipped>>

\* The body of the permutation loop for one ordering (controller.rs:238-256):
\* whether the arm for a failed build is taken, and otherwise what the pass
\* pushes.
OrderingBody(tiles, k, index_selection, ordering) ==
    LET built == build_played_tiles(StartOf(tiles, k),
                                    PermutedTiles(tiles, index_selection, ordering),
                                    AxisOf(tiles, k))
    IN  [failed |-> is_err(built),
         found |-> IF is_err(built) THEN <<>>
                   ELSE TryOrdering(tiles, StartOf(tiles, k), AxisOf(tiles, k),
                                    index_selection, ordering)]

Panicked(found) == \E k \in 1..Len(found) : found[k].panicked

\* while ordering.is_some(): the body for one ordering, with its arm for a
\* failed build, or the step to the next index_selection.
OrderingStep ==
    /\ pc = "ordering"
    /\ current' = IF is_none(current) THEN current
                  ELSE next_permutation(unwrap(current))
    /\ chosen' = IF is_none(current)
                 THEN next_combination(unwrap(chosen), Len(searching))
                 ELSE chosen
    /\ skipped' = IF is_some(current)
                     /\ OrderingBody(searching, cursor, unwrap(chosen),
                                     unwrap(current)).failed
                  THEN skipped + 1 ELSE skipped
    /\ candidates' =
          IF is_none(current) THEN candidates
          ELSE LET found == OrderingBody(searching, cursor, unwrap(chosen),
                                         unwrap(current)).found
               IN  IF Panicked(found) THEN candidates
                   ELSE Ok(candidates[2]
                             \o [k \in 1..Len(found) |->
                                   <<found[k].play, found[k].score>>])
    /\ pc' = IF is_none(current) THEN "selection"
             ELSE IF Panicked(OrderingBody(searching, cursor, unwrap(chosen),
                                           unwrap(current)).found)
                  THEN "panicked" ELSE "ordering"
    /\ UNCHANGED <<searchFrame, frames, searching, cursor, feasible>>

\* A call of candidate_plays returns: to the blank branch that made it, or
\* to play_turn.
ReturnCall ==
    /\ pc = "return"
    /\ pc' = IF frames = <<>> THEN "sort" ELSE "fill"
    /\ UNCHANGED <<searchFrame, candidates, current, loopVars>>

(* ---- explored turns, pass by pass ---- *)
\* A rack of two tiles with and without check_score, a rack of MaxRack tiles
\* and a rack with a letterless tile, on the boards with no or one fixed
\* tile; two letterless tiles on the board of one row.
StepTurns ==
    {<<<<TileA, TileB>>, TRUE>>, <<<<TileA, TileB>>, FALSE>>,
     <<AlternatingTiles(MaxRack), FALSE>>, <<<<TileB, BlankTile>>, TRUE>>}

InitSteps ==
    /\ \/ /\ rows = MaxRows
          /\ columns = MaxColumns
          /\ \E occupied \in {{}} \cup {{cell} : cell \in CellsOf(MaxRows, MaxColumns)} :
                board_tiles =
                    [r \in 0..(MaxRows - 1) |-> [c \in 0..(MaxColumns - 1) |->
                        IF Coordinates(r, c) \in occupied
                           THEN Some(FixedTileAt(0, r, c)) ELSE None]]
          /\ \E turn \in StepTurns : rack = turn[1] /\ check_score = turn[2]
       \/ /\ rows = 1
          /\ columns = 2
          /\ board_tiles = [r \in {0} |-> [c \in {0, 1} |-> None]]
          /\ rack = <<BlankTile, BlankTile>>
          /\ check_score = FALSE
    /\ modifiers = [r \in 0..(rows - 1) |-> [c \in 0..(columns - 1) |->
                        LayoutModifier(r, c)]]
    /\ dictionary = AlternatingWords
    /\ pc = "new"
    /\ InitBoardResults
    /\ InitPoll
    /\ InitLoops
    /\ InitUtilities
    /\ InitTurn

NextSteps ==
    \/ BeginSearch \/ EnterCall \/ FillStep \/ ForStep \/ SelectionStep
    \/ OrderingStep \/ ReturnCall
    \/ SortCandidates \/ Submit \/ VerifyScore \/ PlayTurnFail

SpecSteps == InitSteps /\ [][NextSteps]_vars

(* ======================================================================= *)
(* Properties.  The expected values are stated over the board geometry     *)
(* (sets of cells), not by the walks of the code.                          *)
(* ======================================================================= *)
Occupied(p) == InGrid(p) /\ is_some(board_tiles[p.row][p.column])

NoFixedTiles == \A p \in CellsOf(rows, columns) : ~Occupied(p)

Idx(p, axis) == IF axis = "Horizontal" THEN p.column ELSE p.row

LineCell(p, axis, k) ==
    IF axis = "Horizontal" THEN Coordinates(p.row, k) ELSE Coordinates(k, p.column)

LineLast(axis) == IF axis = "Horizontal" THEN columns - 1 ELSE rows - 1

\* The ends of the contiguous run of fixed tiles that touches cell p on
\* each side along axis (p itself counts whatever it holds).
SpanLo(p, axis) ==
    CHOOSE k \in 0..Idx(p, axis) :
        /\ \A j \in k..(Idx(p, axis) - 1) : Occupied(LineCell(p, axis, j))
        /\ (k = 0 \/ ~Occupied(LineCell(p, axis, k - 1)))

SpanHi(p, axis) ==
    CHOOSE k \in Idx(p, axis)..LineLast(axis) :
        /\ \A j \in (Idx(p, axis) + 1)..k : Occupied(LineCell(p, axis, j))
        /\ (k = LineLast(axis) \/ ~Occupied(LineCell(p, axis, k + 1)))

PlacedAt(tiles, cell) ==
    tiles[CHOOSE i \in 1..Len(tiles) : tiles[i].coordinates = cell]

CellLetter(tiles, cell) ==
    IF Occupied(cell) THEN unwrap(unwrap(board_tiles[cell.row][cell.column]).letter)
    ELSE unwrap(PlacedAt(tiles, cell).tile.letter)

\* fixed tile: raw value; placed tile: value times the cell's letter_multiplier
CellValue(tiles, cell) ==
    IF Occupied(cell) THEN unwrap(board_tiles[cell.row][cell.column]).value
    ELSE PlacedAt(tiles, cell).tile.value
            * modifiers[cell.row][cell.column].letter_multiplier

SpanWord(tiles, p, axis, lo, hi) ==
    [k \in 1..(hi - lo + 1) |-> CellLetter(tiles, LineCell(p, axis, lo + k - 1))]

SpanSum(tiles, p, axis, lo, hi) ==
    LET sum[k \in (lo - 1)..hi] ==
            IF k = lo - 1 THEN 0
            ELSE sum[k - 1] + CellValue(tiles, LineCell(p, axis, k))
    IN  sum[hi]

\* Horizontal when the first two tiles share a row; Vertical otherwise, and
\* for a single tile.
PlacementAxis(tiles) ==
    IF Len(tiles) >= 2 /\ tiles[1].coordinates.row = tiles[2].coordinates.row
    THEN "Horizontal" ELSE "Vertical"

PrimaryLo(tiles) == SpanLo(tiles[1].coordinates, PlacementAxis(tiles))
PrimaryHi(tiles) == SpanHi(tiles[Len(tiles)].coordinates, PlacementAxis(tiles))

ExpectedPrimaryWord(tiles) ==
    SpanWord(tiles, tiles[1].coordinates, PlacementAxis(tiles),
             PrimaryLo(tiles), PrimaryHi(tiles))

HasCrossWord(tiles, i) ==
    SpanLo(tiles[i].coordinates, complement(PlacementAxis(tiles)))
        # SpanHi(tiles[i].coordinates, complement(PlacementAxis(tiles)))

CrossWord(tiles, i) ==
    SpanWord(tiles, tiles[i].coordinates, complement(PlacementAxis(tiles)),
             SpanLo(tiles[i].coordinates, complement(PlacementAxis(tiles))),
             SpanHi(tiles[i].coordinates, complement(PlacementAxis(tiles))))

ExpectedWords(tiles) ==
    LET upto[i \in 0..Len(tiles)] ==
            IF i = 0 THEN <<ExpectedPrimaryWord(tiles)>>
            ELSE IF HasCrossWord(tiles, i) THEN Append(upto[i - 1], CrossWord(tiles, i))
            ELSE upto[i - 1]
    IN  upto[Len(tiles)]

WordMultiplierProduct(tiles) ==
    LET prod[i \in 0..Len(tiles)] ==
            IF i = 0 THEN 1
            ELSE prod[i - 1] * modifiers[tiles[i].coordinates.row]
                                        [tiles[i].coordinates.column].word_multiplier
    IN  prod[Len(tiles)]

ExpectedPrimary(tiles) ==
    SpanSum(tiles, tiles[1].coordinates, PlacementAxis(tiles),
            PrimaryLo(tiles), PrimaryHi(tiles)) * WordMultiplierProduct(tiles)

ExpectedSecondary(tiles, i) ==
    LET axis == complement(PlacementAxis(tiles))
        p == tiles[i].coordinates
    IN  IF ~HasCrossWord(tiles, i) THEN 0
        ELSE SpanSum(tiles, p, axis, SpanLo(p, axis), SpanHi(p, axis))
                * modifiers[p.row][p.column].word_multiplier

\* C10: a successful build_played_tiles returns len(tiles) PlayedTiles with
\* the given tiles in the given order, the first at start, all on start's row
\* (Horizontal) or column (Vertical), at strictly increasing coordinates, on
\* empty in-grid cells, every cell between two consecutive ones holding a
\* fixed tile.
BuildPlacementShape ==
    is_ok(played_tiles) =>
        LET pt == played_tiles[2]
            n == Len(call.tiles)
            axis == call.axis
        IN  /\ Len(pt) = n
            /\ \A i \in 1..n : pt[i].tile = call.tiles[i]
            /\ n >= 1 => pt[1].coordinates = call.start
            /\ \A i \in 1..n :
                  /\ InGrid(pt[i].coordinates)
                  /\ ~Occupied(pt[i].coordinates)
                  /\ Idx(pt[i].coordinates, complement(axis))
                        = Idx(call.start, complement(axis))
            /\ \A i \in 1..(n - 1) :
                  /\ Idx(pt[i].coordinates, axis) < Idx(pt[i + 1].coordinates, axis)
                  /\ \A k \in (Idx(pt[i].coordinates, axis) + 1)
                                ..(Idx(pt[i + 1].coordinates, axis) - 1) :
                        Occupied(LineCell(call.start, axis, k))

\* C10 witness: a placement of at least two tiles that skipped a fixed tile.
BuildPlacementSkips ==
    /\ is_ok(played_tiles)
    /\ Len(played_tiles[2]) >= 2
    /\ \E i \in 1..(Len(played_tiles[2]) - 1) :
          Idx(played_tiles[2][i + 1].coordinates, call.axis)
              > Idx(played_tiles[2][i].coordinates, call.axis) + 1

\* C9: for a built placement words_created returns the primary word (every
\* cell from the furthest contiguous fixed tile before the first placed tile
\* to the furthest one after the last placed tile) and then, in placement
\* order, one secondary word per placed tile whose perpendicular span has
\* more than one cell, and nothing else.
WordsCreatedShape ==
    (pc = "words_created" /\ Len(passed) >= 1) =>
        /\ is_ok(words)
        /\ words[2] = ExpectedWords(passed)

\* C9 witness: a primary word that takes in a fixed tile, with a cross word.
WordsCreatedWithCross ==
    /\ pc = "words_created"
    /\ is_ok(words)
    /\ Len(words[2]) >= 2
    /\ Len(words[2][1]) > Len(passed)

\* C4: the primary contribution of score equals the sum over the whole
\* primary word span (fixed tile: raw value; placed tile: value times
\* letter_multiplier) times the product of the word_multipliers under the
\* placed tiles.
PrimaryContributionWholeSpan ==
    (pc = "score" /\ Len(passed) >= 1) =>
        /\ is_ok(contributions.primary)
        /\ contributions.primary[2] = ExpectedPrimary(passed)

\* C5: for a placement of two or more tiles, the secondary contribution of
\* each tile is the sum over its whole perpendicular span, both end cells
\* included, times the word_multiplier of the tile's cell; 0 for a single cell.
SecondaryContributionWholeSpan ==
    (pc = "score" /\ Len(passed) >= 2) =>
        \A i \in 1..Len(passed) :
            /\ is_ok(contributions.secondary[i])
            /\ contributions.secondary[i][2] = ExpectedSecondary(passed, i)

\* C6: score = (secondary contributions when more than one tile) + primary
\* contribution + (50 exactly when 7 tiles).
ScoreComposition ==
    (pc = "score" /\ Len(passed) >= 1) =>
        /\ is_ok(total)
        /\ is_ok(contributions.primary)
        /\ \A i \in 1..Len(contributions.secondary) : is_ok(contributions.secondary[i])
        /\ Len(contributions.secondary) = (IF Len(passed) > 1 THEN Len(passed) ELSE 0)
        /\ total[2] = SumSeq([i \in 1..Len(contributions.secondary) |->
                                 contributions.secondary[i][2]])
                      + contributions.primary[2]
                      + (IF Len(passed) = 7 THEN 50 ELSE 0)

\* C6 witness: a scored placement of exactly seven tiles.
ScoreOfSevenTiles ==
    /\ pc = "score"
    /\ Len(passed) = 7
    /\ is_ok(total)

\* C8: with no fixed tile on the board, the score of L tiles is (sum of value
\* times the letter_multiplier of the tile's cell) times the product of the
\* word_multipliers of the cells, plus 50 when L = 7.
ScoreOnEmptyBoard ==
    (pc = "score" /\ Len(passed) >= 1 /\ NoFixedTiles) =>
        /\ is_ok(total)
        /\ total[2] =
              SumSeq([i \in 1..Len(passed) |->
                        passed[i].tile.value
                          * modifiers[passed[i].coordinates.row]
                                     [passed[i].coordinates.column].letter_multiplier])
                * WordMultiplierProduct(passed)
              + (IF Len(passed) = 7 THEN 50 ELSE 0)

\* C8 witness: three tiles scored on an empty board, the middle one on a
\* cell with letter_multiplier 2 and a word_multiplier above 1.
ScoreOnEmptyBoardExample ==
    /\ pc = "score"
    /\ NoFixedTiles
    /\ Len(passed) = 3
    /\ is_ok(total)
    /\ modifiers[passed[2].coordinates.row][passed[2].coordinates.column]
          = Modifier(2, 2)

SameResult(a, b) == a[1] = b[1] /\ (a[1] = "Ok" => a[2] = b[2])

\* C7: score and words_created give, for the PlayedTiles of a built placement
\* handed over in any order, what they give for the built order.
ReorderInvariance ==
    /\ (pc = "score" /\ Len(passed) >= 1) => SameResult(total, score(played_tiles[2]))
    /\ (pc = "words_created" /\ Len(passed) >= 1)
          => SameResult(words, words_created(played_tiles[2]))

(* ---------------- the candidate search ---------------- *)
Found == candidates[2]

CenterCell == Coordinates(rows \div 2, columns \div 2)

Neighbours(p) ==
    {Coordinates(p.row + 1, p.column), Coordinates(p.row - 1, p.column),
     Coordinates(p.row, p.column + 1), Coordinates(p.row, p.column - 1)}

TouchesFixed(tiles) ==
    \E i \in 1..Len(tiles) : \E q \in Neighbours(tiles[i].coordinates) : Occupied(q)

CoversCenter(tiles) == \E i \in 1..Len(tiles) : tiles[i].coordinates = CenterCell

\* C1: every word of words_created of every returned candidate is in the
\* dictionary.
CandidateWordsInDictionary ==
    pc = "candidate_plays" =>
        /\ is_ok(candidates)
        /\ \A k \in 1..Len(Found) :
              LET created == words_created(Found[k][1])
              IN  /\ is_ok(created)
                  /\ \A w \in 1..Len(created[2]) : created[2][w] \in dictionary

\* C1 witness: a returned candidate that forms a cross word.
CandidateWithCrossWord ==
    /\ pc = "candidate_plays"
    /\ is_ok(candidates)
    /\ \E k \in 1..Len(Found) : Len(words_created(Found[k][1])[2]) >= 2

\* C2: every returned candidate has a placed tile 4-adjacent to a fixed tile
\* or a placed tile on the center cell; on a board without fixed tiles every
\* candidate covers the center cell.
CandidateConnectedOrCentered ==
    pc = "candidate_plays" =>
        /\ is_ok(candidates)
        /\ \A k \in 1..Len(Found) :
              /\ TouchesFixed(Found[k][1]) \/ CoversCenter(Found[k][1])
              /\ NoFixedTiles => CoversCenter(Found[k][1])

\* C2 witness: candidates returned on a board without fixed tiles, and some
\* start cell in the center row from which nothing was returned.
CandidatesOnEmptyBoard ==
    /\ pc = "candidate_plays"
    /\ is_ok(candidates)
    /\ NoFixedTiles
    /\ Len(Found) >= 1
    /\ \E k \in 1..Len(Found) : Len(Found[k][1]) = 1

\* The lettered tiles at the rack positions of an ordered selection.
Selected(positions) == [k \in 1..Len(positions) |-> rack[positions[k]]]

OrderedSelections(n) ==
    {f \in [1..n -> 1..Len(rack)] : \A i, j \in 1..n : f[i] = f[j] => i = j}

\* C3: for a rack without letterless tiles, every ordered selection of rack
\* positions that builds from an empty start cell, is connected or through
\* the center and forms only dictionary words is returned with its score.
SearchComplete ==
    (pc = "candidate_plays" /\ \A i \in 1..Len(rack) : ~is_letterless(rack[i])) =>
        /\ is_ok(candidates)
        /\ \A start \in CellsOf(rows, columns), axis \in {"Horizontal", "Vertical"},
              n \in 1..Len(rack) :
              \A positions \in OrderedSelections(n) :
                 LET built == build_played_tiles(start, Selected(positions), axis)
                 IN  (/\ ~Occupied(start)
                      /\ is_ok(built)
                      /\ (TouchesFixed(built[2]) \/ CoversCenter(built[2]))
                      /\ is_ok(words_created(built[2]))
                      /\ \A w \in 1..Len(words_created(built[2])[2]) :
                            words_created(built[2])[2][w] \in dictionary)
                     => \E k \in 1..Len(Found) :
                           /\ Found[k][1] = built[2]
                           /\ is_ok(score(built[2]))
                           /\ Found[k][2] = score(built[2])[2]

\* C3 witness: a returned two-tile candidate that lays the third rack tile
\* before the first.
CandidateFromLaterTiles ==
    /\ pc = "candidate_plays"
    /\ is_ok(candidates)
    /\ Len(rack) = 3
    /\ rack[3] # rack[1]
    /\ \E k \in 1..Len(Found) :
          /\ Len(Found[k][1]) = 2
          /\ Found[k][1][1].tile = rack[3]
          /\ Found[k][1][2].tile = rack[1]
          /\ rack[2] # rack[3]

(* ---------------- build_played_tiles: failures ---------------- *)
\* Empty cells on the line from p to the grid edge in the axis direction,
\* p included.
EmptyAhead(p, axis) ==
    Cardinality({k \in Idx(p, axis)..LineLast(axis) : ~Occupied(LineCell(p, axis, k))})

OutOfBoundsErrors == {"row_limit_err", "column_limit_err"}

\* C11: build_played_tiles called with a start cell that holds a fixed tile
\* fails with the start-occupied error, whatever the axis and the tile
\* sequence.
StartOccupiedFails ==
    (pc = "build_played_tiles" /\ Occupied(call.start)) =>
        played_tiles = Err("start_occupied")

\* C12: for an empty start cell and at least one tile, build_played_tiles
\* fails with an out-of-bounds error exactly when fewer than len(tiles) empty
\* cells lie on the line from start to the grid edge, and succeeds otherwise.
OutOfBoundsExactly ==
    (pc = "build_played_tiles" /\ ~Occupied(call.start) /\ Len(call.tiles) >= 1) =>
        IF EmptyAhead(call.start, call.axis) < Len(call.tiles)
        THEN is_err(played_tiles) /\ played_tiles[2] \in OutOfBoundsErrors
        ELSE is_ok(played_tiles)

\* C12 witness: a build that ran off the grid although the line from start
\* to the edge has at least len(tiles) cells, fixed tiles taking the room.
OutOfBoundsBehindFixed ==
    /\ pc = "build_played_tiles"
    /\ ~Occupied(call.start)
    /\ Len(call.tiles) >= 1
    /\ is_err(played_tiles)
    /\ LineLast(call.axis) - Idx(call.start, call.axis) + 1 >= Len(call.tiles)

(* ---------------- fill_blanks ---------------- *)
LetterlessAt(tiles) == {i \in 1..Len(tiles) : is_letterless(tiles[i])}

\* The rank of position i among the letterless positions, from the left.
LetterlessRank(tiles, i) == Cardinality({j \in LetterlessAt(tiles) : j <= i})

\* C13: fill_blanks on a rack with k letterless tiles and k letters returns a
\* rack of the same length without letterless tiles, the i-th letterless tile
\* carrying the i-th letter with its value and blank flag, every lettered
\* tile unchanged in place; with another number of letters it panics.  The
\* rack read here is the rack after the call: it is still the one the call
\* was made on.
FillBlanksContract ==
    pc = "fill_blanks" =>
        IF Len(fills) = Cardinality(LetterlessAt(rack))
        THEN /\ is_ok(filled)
             /\ Len(filled[2]) = Len(rack)
             /\ \A i \in 1..Len(rack) :
                   /\ ~is_letterless(filled[2][i])
                   /\ ~is_letterless(rack[i]) => filled[2][i] = rack[i]
                   /\ is_letterless(rack[i]) =>
                         /\ filled[2][i].letter = Some(fills[LetterlessRank(rack, i)])
                         /\ filled[2][i].value = rack[i].value
                         /\ filled[2][i].is_blank = rack[i].is_blank
        ELSE is_panic(filled)


\* C13 witness: two letterless tiles around a lettered one, filled with two
\* different letters.
FillBlanksTwoLetters ==
    /\ pc = "fill_blanks"
    /\ is_ok(filled)
    /\ Len(rack) = 3
    /\ is_letterless(rack[1]) /\ ~is_letterless(rack[2]) /\ is_letterless(rack[3])
    /\ rack[1] # rack[3]
    /\ fills[1] # fills[2]

(* ---------------- the ordering of Tile ---------------- *)
Less(i, j) == orderings[i][j] = "Less"

\* The comparison is a strict total order: of a < b, a = b, b < a exactly one
\* holds, equality is equality of the fields, and < is transitive.
StrictTotalOrder ==
    /\ \A i, j \in 1..3 :
          /\ orderings[i][j] \in {"Less", "Equal", "Greater"}
          /\ orderings[i][j] = "Equal" <=> operands[i] = operands[j]
          /\ orderings[i][j] = "Less" <=> orderings[j][i] = "Greater"
    /\ \A i, j, k \in 1..3 : Less(i, j) /\ Less(j, k) => Less(i, k)

Lettered(i) == is_some(operands[i].letter)

LetterBelow(i, j) ==
    LetterRank(unwrap(operands[i].letter)) < LetterRank(unwrap(operands[j].letter))

LetterDecides ==
    \A i, j \in 1..3 :
        /\ ~Lettered(i) /\ Lettered(j) => Less(i, j)
        /\ Lettered(i) /\ Lettered(j) /\ LetterBelow(i, j) => Less(i, j)

\* C14 as claimed: a strict total order, letterless below lettered, then by
\* letter, then non-blank below blank, and the value only between tiles of
\* equal letter and equal blank flag.
TileOrderBlankBeforeValue ==
    pc = "cmp" =>
        /\ StrictTotalOrder
        /\ LetterDecides
        /\ \A i, j \in 1..3 :
              (Lettered(i) /\ Lettered(j) /\ operands[i].letter = operands[j].letter) =>
                  /\ ~operands[i].is_blank /\ operands[j].is_blank => Less(i, j)
                  /\ (operands[i].is_blank = operands[j].is_blank
                        /\ operands[i].value < operands[j].value) => Less(i, j)

\* C14 amended: a strict total order, letterless below lettered, then by
\* letter, then by value, and non-blank below blank only between tiles of
\* equal letter and equal value.
TileOrderValueBeforeBlank ==
    pc = "cmp" =>
        /\ StrictTotalOrder
        /\ LetterDecides
        /\ \A i, j \in 1..3 :
              (Lettered(i) /\ Lettered(j) /\ operands[i].letter = operands[j].letter) =>
                  /\ operands[i].value < operands[j].value => Less(i, j)
                  /\ (operands[i].value = operands[j].value
                        /\ ~operands[i].is_blank /\ operands[j].is_blank) => Less(i, j)

\* C14 witness: a letterless tile, then two tiles of one letter and one value,
\* the non-blank before the blank, found in ascending order.
TileOrderChain ==
    /\ pc = "cmp"
    /\ ~Lettered(1) /\ Lettered(2) /\ Lettered(3)
    /\ operands[2].letter = operands[3].letter
    /\ operands[2].value = operands[3].value
    /\ ~operands[2].is_blank /\ operands[3].is_blank
    /\ Less(1, 2) /\ Less(2, 3) /\ Less(1, 3)

\* C15: between two tiles of the same letter the lower value is the lesser
\* whatever the blank flags; a lower letter is the lesser whatever the values
\* and flags; with equal letter and value the non-blank tile is the lesser;
\* tiles with identical fields are equal.
ValueBeforeBlankness ==
    pc = "cmp" =>
        \A i, j \in 1..3 :
            /\ (operands[i].letter = operands[j].letter
                  /\ operands[i].value < operands[j].value) => Less(i, j)
            /\ Lettered(i) /\ Lettered(j) /\ LetterBelow(i, j) => Less(i, j)
            /\ (operands[i].letter = operands[j].letter
                  /\ operands[i].value = operands[j].value
                  /\ ~operands[i].is_blank /\ operands[j].is_blank) => Less(i, j)
            /\ operands[i] = operands[j] => orderings[i][j] = "Equal"

\* C15 witness: a blank A of value 0 compared with a non-blank A of value 1.
BlankZeroBelowPlainOne ==
    /\ pc = "cmp"
    /\ operands[1] = Tile(Some("A"), 0, TRUE)
    /\ operands[2] = Tile(Some("A"), 1, FALSE)
    /\ Less(1, 2)

(* ---------------- next_combination ---------------- *)
\* The members of a set of numbers in increasing order.
Ascending(S) ==
    [i \in 1..Cardinality(S) |-> CHOOSE x \in S : Cardinality({y \in S : y < x}) = i - 1]

\* Every strictly increasing selection of k indices below n.
Selections(k, n) == {Ascending(S) : S \in {T \in SUBSET (0..(n - 1)) : Cardinality(T) = k}}

LexLess(a, b) ==
    \E i \in 1..Len(a) : a[i] < b[i] /\ \A j \in 1..(i - 1) : a[j] = b[j]

\* Each entry of seq is a member of All and the next one is the least member
\* of All above it.
Successive(seq, All) ==
    /\ \A i \in 1..Len(seq) : seq[i] \in All
    /\ \A i \in 1..(Len(seq) - 1) :
          /\ LexLess(seq[i], seq[i + 1])
          /\ ~\E s \in All : LexLess(seq[i], s) /\ LexLess(s, seq[i + 1])

\* The argument of the last call.
LastArgument ==
    IF is_some(current) THEN yielded[Len(yielded) - 1] ELSE yielded[Len(yielded)]

\* C16: from [0..k-1] next_combination yields the strictly increasing
\* k-selections of 0..n-1 in lexicographic order without a gap, so each one
\* once, and returns None exactly on [n-k..n-1], all of them yielded by then.
CombinationsInOrder ==
    LET k == Len(yielded[1])
        All == Selections(k, population)
    IN  /\ yielded[1] = Identity(k)
        /\ Successive(yielded, All)
        /\ pc = "next_combination" =>
              /\ is_none(current) <=>
                    LastArgument = [i \in 1..k |-> population - k + i - 1]
              /\ is_none(current) => Len(yielded) = Cardinality(All)

\* C16 witness: the 15 selections of 4 among 6, from [0,1,2,3] to [2,3,4,5],
\* and then None.
CombinationsFourOfSix ==
    /\ pc = "next_combination"
    /\ population = 6
    /\ is_none(current)
    /\ Len(yielded) = 15
    /\ yielded[1] = <<0, 1, 2, 3>>
    /\ yielded[2] = <<0, 1, 2, 4>>
    /\ yielded[15] = <<2, 3, 4, 5>>

(* ---------------- next_permutation ---------------- *)
RECURSIVE Factorial(_)
Factorial(k) == IF k <= 1 THEN 1 ELSE k * Factorial(k - 1)

IsPermutation(p, k) == Len(p) = k /\ {p[i] : i \in 1..k} = 0..(k - 1)

\* C17: from [0..k-1] next_permutation yields permutations of the k indices
\* in strictly increasing lexicographic order, returns None exactly on the
\* descending one, and has yielded k! of them by then, the start counted:
\* every permutation once.
PermutationsInOrder ==
    LET k == Len(yielded[1])
    IN  /\ yielded[1] = Identity(k)
        /\ \A i \in 1..Len(yielded) : IsPermutation(yielded[i], k)
        /\ \A i \in 1..(Len(yielded) - 1) : LexLess(yielded[i], yielded[i + 1])
        /\ pc = "next_permutation" =>
              /\ is_none(current) <=> LastArgument = [i \in 1..k |-> k - i]
              /\ is_none(current) => Len(yielded) = Factorial(k)

\* C17 witness: the 24 permutations of four indices, and then None.
PermutationsOfFour ==
    /\ pc = "next_permutation"
    /\ is_none(current)
    /\ Len(yielded) = 24
    /\ yielded[1] = <<0, 1, 2, 3>>
    /\ yielded[2] = <<0, 1, 3, 2>>
    /\ yielded[24] = <<3, 2, 1, 0>>

(* ---------------- play_turn ---------------- *)
Ranked == candidates[2]

InPlayTurn == pc \in {"attempt", "verify_score", "returned"}

\* Candidates that score strictly more than points.
ScoringAbove(points) == {k \in 1..Len(Ranked) : Ranked[k][2] > points}

\* C18: play_turn submits at most min(10, number of candidates) times, each
\* time a candidate with its score, by non-increasing score, and never while
\* a candidate of strictly higher score is still untried.
AttemptsByScore ==
    InPlayTurn =>
        /\ Len(submissions) <= 10
        /\ Len(submissions) <= Len(Ranked)
        /\ \A j \in 1..Len(submissions) :
              /\ \E k \in 1..Len(Ranked) :
                    /\ submissions[j].tiles = serializable_play(Ranked[k][1])
                    /\ submissions[j].score = Ranked[k][2]
              /\ Cardinality(ScoringAbove(submissions[j].score)) <= j - 1
        /\ \A j \in 1..(Len(submissions) - 1) :
              submissions[j].score >= submissions[j + 1].score

\* C18 witness: ten submissions, all rejected, with more than ten candidates
\* and the first scoring more than the tenth.
TenAttemptsOfMore ==
    /\ pc = "returned"
    /\ Len(submissions) = 10
    /\ Len(Ranked) > 10
    /\ submissions[1].score > submissions[10].score
    /\ is_err(returned)

\* C19: an accepted submission is the last submission of the call, so at
\* most one is accepted, every earlier one was rejected, and none follows it.
AcceptedIsLast ==
    InPlayTurn =>
        \A j \in 1..Len(submissions) : submissions[j].accepted => j = Len(submissions)

\* C19 witness: a submission accepted after two rejected ones.
AcceptedThirdAttempt ==
    /\ pc = "returned"
    /\ Len(submissions) = 3
    /\ ~submissions[1].accepted /\ ~submissions[2].accepted /\ submissions[3].accepted
    /\ is_ok(returned)

\* C20: verify_score fetches the game at most once in a call, only with
\* check_score set and after an accepted submission; play_turn then returns
\* Ok whatever the answer, and no submission follows.
VerificationIsDiagnostic ==
    /\ Len(verifications) <= 1
    /\ Len(verifications) = 1 =>
          /\ check_score
          /\ Len(submissions) >= 1
          /\ submissions[Len(submissions)].accepted
          /\ verifications[1].submitted = Len(submissions)
          /\ pc = "returned"
          /\ is_ok(returned)

\* C20 witness: the server's score differs from the expected one and
\* play_turn has returned Ok.
VerifiedDifferentScore ==
    /\ Len(verifications) = 1
    /\ is_ok(verifications[1].response)
    /\ is_some(verifications[1].response[2])
    /\ unwrap(verifications[1].response[2]) # submissions[Len(submissions)].score
    /\ is_ok(returned)

(* ---------------- the search never fails ---------------- *)
\* The played tiles of the candidates a finished search returned.
FoundPlays == [k \in 1..Len(candidates[2]) |-> candidates[2][k][1]]

SearchReturned == pc = "candidate_plays" /\ is_ok(candidates)

\* C21: a call of candidate_plays on a board, rack and dictionary as the game
\* supplies them returns its list: no fill_blanks mismatch, no words_created
\* or score call on a placement it built panics, fails an unwrap or expect,
\* or reads a cell off the grid.
SearchNeverPanics == pc = "candidate_plays" => is_ok(candidates)

\* A returned list with a placement whose tiles lie on both sides of a fixed
\* tile, so the walks of words_created and score crossed it.
SearchAcrossFixedTile ==
    /\ SearchReturned
    /\ \E k \in 1..Len(FoundPlays) :
          /\ Len(FoundPlays[k]) = 2
          /\ FoundPlays[k][1].coordinates.row + 2 = FoundPlays[k][2].coordinates.row

(* ---------------- the shape of a candidate ---------------- *)
OnOneLine(tiles) ==
    \/ \A i \in 1..(Len(tiles) - 1) :
          /\ tiles[i].coordinates.row = tiles[i + 1].coordinates.row
          /\ tiles[i].coordinates.column < tiles[i + 1].coordinates.column
    \/ \A i \in 1..(Len(tiles) - 1) :
          /\ tiles[i].coordinates.column = tiles[i + 1].coordinates.column
          /\ tiles[i].coordinates.row < tiles[i + 1].coordinates.row

CandidateShape(tiles) ==
    /\ Len(tiles) >= 1
    /\ Len(tiles) <= Len(rack)
    /\ \A i \in 1..Len(tiles) :
          /\ is_some(tiles[i].tile.letter)
          /\ tiles[i].coordinates.row \in 0..(rows - 1)
          /\ tiles[i].coordinates.column \in 0..(columns - 1)
          /\ is_none(board_tiles[tiles[i].coordinates.row][tiles[i].coordinates.column])
    /\ OnOneLine(tiles)

\* C26: every candidate candidate_plays returns, for a rack with or without
\* letterless tiles, has at least one tile and at most as many as the rack,
\* a letter on every tile, and its tiles in one row or one column at strictly
\* increasing coordinates that are on the grid and hold no fixed tile.
CandidatesWellShaped ==
    SearchReturned => \A k \in 1..Len(FoundPlays) : CandidateShape(FoundPlays[k])

\* A candidate of two tiles from a rack with a letterless tile, the blank
\* laid with a letter.
CandidateWithFilledBlank ==
    /\ SearchReturned
    /\ \E i \in 1..Len(rack) : is_letterless(rack[i])
    /\ \E k \in 1..Len(FoundPlays) :
          /\ Len(FoundPlays[k]) = 2
          /\ \E i \in 1..2 : FoundPlays[k][i].tile.is_blank

(* ---------------- words_created: a single tile ---------------- *)
\* C23: for a placement of one tile words_created takes Vertical as the
\* primary axis whatever lies beside the tile: the first word is the
\* contiguous vertical span through the tile (the tile's letter alone when
\* no fixed tile is above or below it), and a horizontal span of more than
\* one cell comes after it as the secondary word; nothing else is returned.
SingleTileWords ==
    (pc = "words_created" /\ Len(passed) = 1) =>
        LET p == passed[1].coordinates
            above == SpanLo(p, "Vertical")
            below == SpanHi(p, "Vertical")
            left == SpanLo(p, "Horizontal")
            right == SpanHi(p, "Horizontal")
        IN  /\ is_ok(words)
            /\ Len(words[2]) = (IF left # right THEN 2 ELSE 1)
            /\ words[2][1] = SpanWord(passed, p, "Vertical", above, below)
            /\ above = below => words[2][1] = <<unwrap(passed[1].tile.letter)>>
            /\ left # right =>
                  words[2][2] = SpanWord(passed, p, "Horizontal", left, right)

\* C23 witness: one tile beside a fixed tile of its row, nothing above or
\* below: a one-letter word, then the word along the row.
SingleTileBesideFixed ==
    /\ pc = "words_created"
    /\ Len(passed) = 1
    /\ is_ok(words)
    /\ Len(words[2]) = 2
    /\ Len(words[2][1]) = 1
    /\ Len(words[2][2]) = 2

(* ---------------- score: no tiles ---------------- *)
\* C29: score called on an empty placement returns 0 without failing.
ScoreOfNoTiles ==
    (pc = "score" /\ Len(passed) = 0) => total = Ok(0)

(* ---------------- play_turn: what is returned ---------------- *)
SomeAccepted == \E j \in 1..Len(submissions) : submissions[j].accepted

AttemptCap == IF Len(Ranked) < 10 THEN Len(Ranked) ELSE 10

\* C24: play_turn returns Ok exactly when one of its submissions was
\* accepted; it returns Err exactly when there was no candidate, and then
\* nothing was submitted, or when min(10, number of candidates) submissions
\* were made and all rejected.  The j-th submission is the j-th candidate of
\* the sorted list, so a rejected submission below the cap is followed by
\* the next candidate's.
ReturnTellsAcceptance ==
    /\ InPlayTurn =>
          /\ Len(submissions) <= AttemptCap
          /\ \A j \in 1..Len(submissions) :
                submissions[j].tiles = serializable_play(Ranked[j][1])
    /\ pc = "returned" =>
          /\ returned[1] \in {"Ok", "Err"}
          /\ is_ok(returned) <=> SomeAccepted
          /\ is_err(returned) <=>
                \/ Len(Ranked) = 0 /\ Len(submissions) = 0
                \/ /\ Len(Ranked) >= 1
                   /\ Len(submissions) = AttemptCap
                   /\ ~SomeAccepted

\* C24 witness: fewer than ten candidates, at least three, every one
\* submitted and rejected, and play_turn returned Err.
EveryCandidateRejected ==
    /\ pc = "returned"
    /\ is_err(returned)
    /\ Len(Ranked) >= 3
    /\ Len(Ranked) < 10
    /\ Len(submissions) = Len(Ranked)

(* ---------------- play_turn: repeated plays ---------------- *)
\* C28: within one play_turn call no play is submitted twice: any two
\* submissions differ in a placed tile (coordinates, letter, blank flag or
\* value), also with identical tiles on the rack and for single-tile
\* placements.
NoPlaySubmittedTwice ==
    \A i, j \in 1..Len(submissions) :
        i < j => submissions[i].tiles # submissions[j].tiles

(* ---------------- the search with letterless tiles ---------------- *)
\* The rack with its letterless tiles resolved: the last but one takes
\* first, the last takes second, and the i-th of the others, counted from 0,
\* the (i mod 5)-th of S, E, R, A, T.  With one letterless tile it takes
\* second.
Resolved(first, second) ==
    LET b == Cardinality(LetterlessAt(rack))
        letter_of(i) ==
            IF LetterlessRank(rack, i) = b THEN second
            ELSE IF LetterlessRank(rack, i) = b - 1 THEN first
            ELSE <<"S", "E", "R", "A", "T">>[((LetterlessRank(rack, i) - 1) % 5) + 1]
    IN  [i \in 1..Len(rack) |->
            IF is_letterless(rack[i])
            THEN Tile(Some(letter_of(i)), rack[i].value, rack[i].is_blank)
            ELSE rack[i]]

\* The racks searched: 26 for one letterless tile, 26 * 26 for more, the
\* letter of the last letterless tile changing fastest.
ResolvedRacks ==
    IF Cardinality(LetterlessAt(rack)) = 1
    THEN [k \in 1..26 |-> Resolved("A", Alphabet[k])]
    ELSE [k \in 1..(26 * 26) |->
            Resolved(Alphabet[((k - 1) \div 26) + 1], Alphabet[((k - 1) % 26) + 1])]

\* The candidates of the search without blanks on each resolved rack, one
\* list after the other.
ResolvedSearches ==
    LET entries == Flatten([k \in 1..Len(ResolvedRacks) |-> SearchLoop(ResolvedRacks[k])],
                           1, Len(ResolvedRacks))
    IN  [k \in 1..Len(entries) |-> <<entries[k].play, entries[k].score>>]

\* C22: for a rack with b >= 1 letterless tiles candidate_plays returns the
\* concatenation of the results of the search without blanks over the 26
\* racks with the blank as A..Z (b = 1), or over the 26 * 26 racks in which
\* the last two letterless tiles take every ordered pair of letters and the
\* i-th of the others the (i mod 5)-th letter of S, E, R, A, T (b >= 2);
\* nothing else is in the result.
BlanksResolvedAsListed ==
    (pc = "candidate_plays" /\ LetterlessAt(rack) # {}) =>
        /\ is_ok(candidates)
        /\ candidates[2] = ResolvedSearches

\* C22 witness: eight letterless tiles and one empty cell beside a fixed A.
\* S is laid from the first and the sixth tile of each of the 676 racks, and
\* from a tile of the 52 pairs with one S (twice from the pair of two), under
\* either axis.
SixthBlankLaidAsS ==
    /\ pc = "candidate_plays"
    /\ is_ok(candidates)
    /\ Cardinality(LetterlessAt(rack)) = 8
    /\ Cardinality({k \in 1..Len(candidates[2]) :
                        candidates[2][k][1][1].tile.letter = Some("S")})
          = 2 * (2 * 676 + 52)

(* ---------------- poll ---------------- *)
\* The ids of the listed games that are not completed and name the AI as the
\* player to move, in list order.
EligibleIds ==
    LET eligible(info) == is_none(info.completed) /\ info.whose_turn_name = "AI"
        kept == SelectSeq(games, eligible)
    IN  [k \in 1..Len(kept) |-> kept[k].id]

\* The player whose turn_order is turn_number mod the number of players is
\* the fetching player.
FetcherToMove(state) ==
    \E k \in 1..Len(state.game_players) :
        /\ state.game_players[k].turn_order
              = state.turn_number % Len(state.game_players)
        /\ state.game_players[k].player.id = state.fetcher_player_id

\* The ids of the fetched games whose state has the fetching player to move.
IdsToPlay ==
    LET to_play(fetch) == is_ok(fetch.response) /\ FetcherToMove(fetch.response[2])
        kept == SelectSeq(fetches, to_play)
    IN  [k \in 1..Len(kept) |-> kept[k].id]

\* C25: in a poll cycle every listed game that is not completed and names
\* the AI as the player to move is fetched, once and in list order, whether
\* or not the fetch of another game failed, and no other game is; play_turn
\* is called exactly for the fetched games whose state has the fetching
\* player at turn_order = turn_number mod the number of players; when the
\* games list cannot be fetched nothing is fetched and play_turn, the only
\* place that submits, is not called.
PollCycle ==
    /\ pc = "polled" =>
          /\ is_ok(listing) => [k \in 1..Len(fetches) |-> fetches[k].id] = EligibleIds
          /\ turns = IdsToPlay
    /\ is_err(listing) => fetches = <<>> /\ turns = <<>> /\ submissions = <<>>
    /\ \A k \in 1..Len(turns) : \E j \in 1..Len(fetches) : fetches[j].id = turns[k]

\* C25 witness: the fetch of the first eligible game failed, a later game
\* was fetched and play_turn called for it, and a fetched game in which the
\* AI is not to move was left alone.
PollAfterFailedFetch ==
    /\ pc = "polled"
    /\ Len(fetches) = 3
    /\ is_err(fetches[1].response)
    /\ is_ok(fetches[2].response)
    /\ is_ok(fetches[3].response)
    /\ turns = <<fetches[2].id>>

(* ---------------- build_played_tiles and the tiles it is given ---------------- *)
\* Every way of taking n of the tiles of the call being made, in any order.
TakenFrom(n) ==
    {f \in [1..n -> 1..Len(searching)] : \A i, j \in 1..n : f[i] = f[j] => i = j}

\* Two builds end alike: both fail with the same error, or both succeed and
\* lay their tiles on the same cells.
SameOutcome(a, b) ==
    /\ a[1] = b[1]
    /\ is_err(a) => a[2] = b[2]
    /\ is_ok(a) => CellsLaid(a[2]) = CellsLaid(b[2])

\* C27: what build_played_tiles returns, and on which cells it lays tiles,
\* is the same for every choice and order of as many rack tiles at one start
\* cell and axis; so after a feasibility check that passed, the build of
\* every ordering of every index_selection succeeds on the cells the check
\* laid, and the arm for a failed build inside the permutation loop is never
\* entered.
BuildIgnoresTiles ==
    /\ skipped = 0
    /\ (pc = "for" /\ cursor <= ForPasses(searching)) =>
          \A taken \in TakenFrom(NumTilesOf(searching, cursor)) :
              SameOutcome(
                  build_played_tiles(StartOf(searching, cursor),
                      [i \in 1..NumTilesOf(searching, cursor) |-> searching[i]],
                      AxisOf(searching, cursor)),
                  build_played_tiles(StartOf(searching, cursor),
                      [i \in 1..NumTilesOf(searching, cursor) |-> searching[taken[i]]],
                      AxisOf(searching, cursor)))
    /\ (pc = "ordering" /\ is_some(current)) =>
          LET built == build_played_tiles(
                          StartOf(searching, cursor),
                          PermutedTiles(searching, unwrap(chosen), unwrap(current)),
                          AxisOf(searching, cursor))
          IN  is_ok(built) /\ CellsLaid(built[2]) = feasible

\* C27 witness: the loops are at the last ordering of the last selection of
\* two out of three or more different tiles, on cells either side of a fixed
\* tile.
LastOrderingAcrossFixed ==
    /\ pc = "ordering"
    /\ Len(searching) >= 3
    /\ chosen = Some(<<Len(searching) - 2, Len(searching) - 1>>)
    /\ current = Some(<<1, 0>>)
    /\ Len(feasible) = 2
    /\ feasible[1].row + 2 = feasible[2].row

(* ---------------- candidate_plays ends ---------------- *)
SearchPcs == {"new", "called", "fill", "for", "selection", "ordering", "return"}

\* Every arrangement of the indices 0..k-1.
Arrangements(k) == {p \in [1..k -> 0..(k - 1)] : IsPermutation(p, k)}

\* The arrangements, and the selections, still ahead of the loop variable:
\* those above it in lexicographic order and itself; none after None.
OrderingsAhead ==
    IF is_none(current) THEN 0
    ELSE 1 + Cardinality({p \in Arrangements(Len(unwrap(current))) :
                            LexLess(unwrap(current), p)})

SelectionsAhead ==
    IF is_none(chosen) THEN 0
    ELSE 1 + Cardinality({q \in Selections(Len(unwrap(chosen)), Len(searching)) :
                            LexLess(unwrap(chosen), q)})

\* The passes of the letter loops ahead in the blank branch, the one being
\* made included: 26 or 26 * 26 in all.
FillsAhead ==
    IF frames = <<>> THEN (IF pc \in {"new", "called"} THEN 26 * 26 + 2 ELSE 0)
    ELSE (IF Cardinality(LetterlessAt(frames[Len(frames)].tiles)) = 1
             THEN 26 ELSE 26 * 26)
            - frames[Len(frames)].fill + 1

\* How far the search is from its end, most significant first: letter
\* passes ahead; the place inside the call (entered, looping, returning,
\* back in the blank branch); for passes ahead; before or inside the while
\* loops; selections ahead; before or inside the permutation loop;
\* orderings ahead.
SearchMeasure ==
    <<FillsAhead,
      CASE pc = "new" -> 4 [] pc = "called" -> 3
        [] pc \in {"for", "selection", "ordering"} -> 2
        [] pc = "return" -> 1 [] OTHER -> 0,
      IF pc \in {"for", "selection", "ordering"}
         THEN ForPasses(searching) + 1 - cursor ELSE 0,
      IF pc = "for" THEN 1 ELSE 0,
      IF pc \in {"selection", "ordering"} THEN SelectionsAhead ELSE 0,
      IF pc = "selection" THEN 1 ELSE 0,
      IF pc = "ordering" THEN OrderingsAhead ELSE 0>>

\* A step taken inside the search lowers the measure.
SearchNearsEnd == pc \in SearchPcs => LexLess(SearchMeasure', SearchMeasure)

\* C30: candidate_plays terminates.  Every step of the search brings it
\* nearer its end in a measure of natural numbers that cannot fall for ever:
\* next_permutation moves to an arrangement with fewer ahead until None,
\* next_combination to a selection with fewer ahead until None, the for
\* loops and the letter loops count down.  The blank branch is not entered
\* from inside itself, no walk of words_created or score leaves its span
\* (it would panic off the grid or on an empty cell), and nothing is
\* submitted before the search has returned and the list is sorted.
SearchTerminates ==
    /\ [][SearchNearsEnd]_vars
    /\ [](\A i \in 1..Len(SearchMeasure) : SearchMeasure[i] >= 0)
    /\ [](Len(frames) <= 1)
    /\ [](pc # "panicked")
    /\ [](pc \in SearchPcs \cup {"sort"} => submissions = <<>>)

\* C30 witness: the search of a rack with a letterless tile has returned
\* candidates to play_turn, and the first of them is being submitted.
SearchReturnedThroughBlanks ==
    /\ pc = "attempt"
    /\ \E i \in 1..Len(rack) : is_letterless(rack[i])
    /\ frames = <<>>
    /\ Len(candidates[2]) >= 2
    /\ submissions = <<>>


====
